---- MODULE Spec2Model ----
(***************************************************************************)
(* A model of microjson (src/src/lib.rs): the JsonValue tree, the          *)
(* FiniteF64 wrapper, the explicit-stack parser (FromStr), the             *)
(* explicit-stack serializer (Display / Debug), the work-list equality,    *)
(* clone-by-round-trip and the iterative Drop.                             *)
(*                                                                         *)
(* Text is a sequence of bytes (naturals below 256), as the parser reads   *)
(* `input.as_bytes()`.  An f64 is modelled bit-exactly: a sign, a 53-bit   *)
(* significand and a binary exponent, with IEEE-754 round-to-nearest-even  *)
(* after every arithmetic operation.  Significands do not fit the          *)
(* model checker's integers, so they are kept as little-endian sequences   *)
(* of 15-bit limbs.                                                        *)
(***************************************************************************)
EXTENDS Integers, Sequences, FiniteSets, TLC

(***************************************************************************)
(* Naturals of unbounded width: little-endian limb sequences, no high      *)
(* zero limb; <<>> is zero.                                                *)
(***************************************************************************)
LimbBits == 5 * 3
LimbBase == 2 ^ LimbBits

(***************************************************************************)
(* f64.  A float is [k, neg, m, e]: k is "fin", "inf" or "nan"; a finite   *)
(* float is (-1)^neg * m * 2^e with m a natural of at most MantBits bits.  *)
(* The representation is unique: m has exactly MantBits bits (a normal     *)
(* number), or e = MinExp (a subnormal), or m is zero and e = 0.           *)
(***************************************************************************)
MantBits == 53
MinExp == -1074
MaxExp == 971

(***************************************************************************)
(* Bytes and text.                                                         *)
(***************************************************************************)
\* the byte of an ASCII character, Rust's b'c'
\* the bytes the program names in its byte and character literals
Tab == 9
Lf == 10
Cr == 13
Bs == 8
Ff == 12
Space == 32
Quote == 34
Plus == 43
Comma == 44
Minus == 45
Dot == 46
Slash == 47
Digit0 == 48
Digit9 == 57
Colon == 58
UpperA == 65
UpperE == 69
UpperF == 70
LBracket == 91
Backslash == 92
RBracket == 93
LowerA == 97
LowerB == 98
LowerE == 101
LowerF == 102
LowerN == 110
LowerR == 114
LowerT == 116
LowerU == 117
LBrace == 123
RBrace == 125

\* the literals b"null", b"true" and b"false"
KwNull == <<LowerN, LowerU, 108, 108>>
KwTrue == <<LowerT, LowerR, LowerU, LowerE>>
KwFalse == <<LowerF, LowerA, 108, 115, LowerE>>

\* the code of a character, for writing texts down
Ascii ==
    " " :> 32 @@ "\"" :> 34 @@ "#" :> 35 @@ "+" :> 43 @@ "," :> 44 @@ "-" :> 45 @@
    "." :> 46 @@ "/" :> 47 @@ "0" :> 48 @@ "1" :> 49 @@ "2" :> 50 @@ "3" :> 51 @@
    "4" :> 52 @@ "5" :> 53 @@ "6" :> 54 @@ "7" :> 55 @@ "8" :> 56 @@ "9" :> 57 @@
    ":" :> 58 @@ "A" :> 65 @@ "B" :> 66 @@ "C" :> 67 @@ "D" :> 68 @@ "E" :> 69 @@
    "F" :> 70 @@ "[" :> 91 @@ "\\" :> 92 @@ "]" :> 93 @@ "a" :> 97 @@ "b" :> 98 @@
    "c" :> 99 @@ "d" :> 100 @@ "e" :> 101 @@ "f" :> 102 @@ "l" :> 108 @@ "n" :> 110 @@
    "r" :> 114 @@ "s" :> 115 @@ "t" :> 116 @@ "u" :> 117 @@ "x" :> 120 @@ "{" :> 123 @@
    "}" :> 125 @@ "TAB" :> 9 @@ "LF" :> 10 @@ "CR" :> 13 @@ "BS" :> 8 @@ "FF" :> 12 @@
    "DEL" :> 127

\* the bytes of a text given character by character
Str(chars) == [j \in 1..Len(chars) |-> Ascii[chars[j]]]

\* b' ' | b'\t' | b'\n' | b'\r'
IsWs(c) == c \in {Space, Tab, Lf, Cr}

\* b'0'..=b'9'
IsDigit(c) == c >= Digit0 /\ c <= Digit9

\* u8::is_ascii_control: U+0000..=U+001F and U+007F
IsAsciiControl(c) == c <= 31 \/ c = 127

\* the value of a hexadecimal digit, -1 for any other byte
HexDigit(c) ==
    IF IsDigit(c) THEN c - Digit0
    ELSE IF c >= LowerA /\ c <= LowerF THEN c - LowerA + 10
    ELSE IF c >= UpperA /\ c <= UpperF THEN c - UpperA + 10
    ELSE -1

\* u32::from_str_radix(s, 16) on a four-byte slice: the number, or -1 for Err.
\* The standard library accepts one leading '+' before the digits.
FromStrRadix16(s) ==
    LET d == [j \in 1..4 |-> HexDigit(s[j])]
    IN  IF \A j \in 1..4 : d[j] >= 0
        THEN ((d[1] * 16 + d[2]) * 16 + d[3]) * 16 + d[4]
        ELSE IF s[1] = Plus /\ \A j \in 2..4 : d[j] >= 0
        THEN (d[2] * 16 + d[3]) * 16 + d[4]
        ELSE -1

\* input.get(from..to) then from_str_radix: -1 when the slice runs past the
\* end (a slice that splits a multi-byte character holds a byte that is no
\* hexadecimal digit, so both failures are the same error)
HexAt(bytes, from, to) ==
    IF to > Len(bytes) THEN -1 ELSE FromStrRadix16(SubSeq(bytes, from + 1, to))

\* char::from_u32(cp), then the UTF-8 bytes String::push appends; a surrogate
\* or a value past U+10FFFF is no char and becomes U+FFFD
Utf8(cp) ==
    IF cp < 128 THEN <<cp>>
    ELSE IF cp < 2048 THEN <<192 + (cp \div 64), 128 + (cp % 64)>>
    ELSE IF cp < 65536
    THEN <<224 + (cp \div 4096), 128 + ((cp \div 64) % 64), 128 + (cp % 64)>>
    ELSE <<240 + (cp \div 262144), 128 + ((cp \div 4096) % 64),
           128 + ((cp \div 64) % 64), 128 + (cp % 64)>>

CharFromU32OrReplacement(cp) ==
    IF (cp >= 55296 /\ cp <= 57343) \/ cp > 1114111 THEN Utf8(65533) ELSE Utf8(cp)

(***************************************************************************)
(* Arithmetic on wide naturals and on f64 above the limb primitives, the   *)
(* reading and the formatting of decimal numbers.  These are evaluated by  *)
(* one recursive evaluator, Arith, which holds their definitions: each     *)
(* operator hands its name and its arguments to it.                        *)
(***************************************************************************)
BLimb(a, i) == IF i >= 1 /\ i <= Len(a) THEN a[i] ELSE 0

Max(a, b) == IF a >= b THEN a ELSE b

Min(a, b) == IF a <= b THEN a ELSE b

FZero(neg) == [k |-> "fin", neg |-> neg, m |-> <<>>, e |-> 0]

\* an f64 of the model: finite, an infinity or a NaN
IsF64(f) == f.k \in {"fin", "inf", "nan"}

FInf(neg) == [k |-> "inf", neg |-> neg, m |-> <<>>, e |-> 0]

FNaN == [k |-> "nan", neg |-> FALSE, m |-> <<>>, e |-> 0]

FIsZero(x) == x.k = "fin" /\ x.m = <<>>

\* f64::is_finite
FIsFinite(x) == x.k = "fin"

\* unary minus
FNeg(x) == IF x.k = "nan" THEN x ELSE [x EXCEPT !.neg = ~x.neg]

\* x == y on f64 (a NaN equals nothing, the two zeros are equal)
FEq(x, y) ==
    IF x.k = "nan" \/ y.k = "nan" THEN FALSE
    ELSE IF FIsZero(x) /\ FIsZero(y) THEN TRUE
    ELSE x = y

Zeros(n) == [j \in 1..n |-> Digit0]

\* bytes.get(i)
Get(bytes, i) == IF i >= 0 /\ i < Len(bytes) THEN bytes[i + 1] ELSE -1

\* bytes.get(from..to) == Some(lit)
SliceIs(bytes, from, to, lit) == to <= Len(bytes) /\ SubSeq(bytes, from + 1, to) = lit

\* a without its zero limbs at the top
BNorm(a) ==
    IF a = <<>> THEN <<>>
    ELSE IF a[Len(a)] # 0 THEN SubSeq(a, 1, Len(a))
    ELSE LET nz == {j \in 1..Len(a) : a[j] # 0}
         IN  IF nz = {} THEN <<>>
             ELSE SubSeq(a, 1, CHOOSE j \in nz : \A k \in nz : k <= j)

\* limbs of a natural: none for 0, and no zero limb at the top
IsLimbs(a) == a = <<>> \/ a[Len(a)] # 0

\* -1, 0 or 1 as a < b, a = b, a > b: the longer is the greater, and between
\* two of one length the highest limb where they differ tells
BCmp(a, b) ==
    IF Len(a) # Len(b) THEN (IF Len(a) > Len(b) THEN 1 ELSE -1)
    ELSE LET df == {j \in 1..Len(a) : a[j] # b[j]}
         IN  IF df = {} THEN 0
             ELSE IF \E j \in df : a[j] > b[j] /\ \A k \in df : k <= j THEN 1
             ELSE -1

\* a natural of the model checker as limbs
BFromNat(n) ==
    BNorm(<<n % LimbBase, (n \div LimbBase) % LimbBase, n \div (LimbBase * LimbBase)>>)

\* The carry into column j of the column sums s(1), s(2), .. (each under
\* 2 * LimbBase - 1), c0 being the carry into column 1: the nearest column
\* below j whose sum is not LimbBase - 1 makes it, those between pass it on.
CarryIn(s, j, c0) ==
    LET low == {g \in 1..(j - 1) : s[g] # LimbBase - 1}
    IN  IF low = {} THEN c0
        ELSE IF s[CHOOSE g \in low : \A h \in low : h <= g] >= LimbBase THEN 1
        ELSE 0

\* the number of bits of a limb
SmallBitLen(n) ==
    IF n = 0 THEN 0
    ELSE CHOOSE k \in 1..LimbBits : 2 ^ (k - 1) <= n /\ n < 2 ^ k

BitLen(a) == IF a = <<>> THEN 0 ELSE LimbBits * (Len(a) - 1) + SmallBitLen(a[Len(a)])

\* bit i of a, the least significant being bit 0
BBit(a, i) == (BLimb(a, (i \div LimbBits) + 1) \div (2 ^ (i % LimbBits))) % 2

\* whether some bit of a below bit k is set
BLowBits(a, k) ==
    \/ \E j \in 1..(k \div LimbBits) : BLimb(a, j) # 0
    \/ BLimb(a, (k \div LimbBits) + 1) % (2 ^ (k % LimbBits)) # 0

\* f[lo] + .. + f[hi]
RECURSIVE SumRange(_, _, _)
SumRange(f, lo, hi) ==
    IF lo > hi THEN 0
    ELSE IF lo = hi THEN f[lo]
    ELSE SumRange(f, lo, (lo + hi) \div 2) + SumRange(f, ((lo + hi) \div 2) + 1, hi)

\* column k of the product a * b before the carries: the low halves of the
\* limb products of weight k and the high halves of those of weight k - 1
BMulCol(a, b, k) ==
    SumRange([i \in 1..Len(a) |-> ((a[i] * BLimb(b, k + 1 - i)) % LimbBase)
                                  + ((a[i] * BLimb(b, k - i)) \div LimbBase)],
             Max(1, k - Len(b)), Min(Len(a), k))

\* a sequence from its last element to its first
Reverse(q) == [j \in 1..Len(q) |-> q[Len(q) + 1 - j]]

\* the limbs hi..lo of a divided by a small d (0 < d <= LimbBase), r the
\* remainder that comes in from above: <<quotient limbs, remainder>>, the
\* quotient limbs from the most significant down
RECURSIVE BDivSmallC(_, _, _, _, _)
BDivSmallC(a, d, hi, lo, r) ==
    IF lo > hi THEN <<<<>>, r>>
    ELSE IF lo = hi THEN <<<<(r * LimbBase + a[hi]) \div d>>, (r * LimbBase + a[hi]) % d>>
    ELSE LET high == BDivSmallC(a, d, hi, ((lo + hi) \div 2) + 1, r)
             low  == BDivSmallC(a, d, (lo + hi) \div 2, lo, high[2])
         IN  <<high[1] \o low[1], low[2]>>

RECURSIVE Arith(_, _)

\* a + b
BAdd(a, b) == Arith("BAdd", <<a, b>>)

\* a - b for a >= b
BSub(a, b) == Arith("BSub", <<a, b>>)

\* a * s for a small s (s < LimbBase)
BMulSmall(a, s) == Arith("BMulSmall", <<a, s>>)

\* <<a div d, a mod d>> for a small d (0 < d <= LimbBase)
BDivSmall(a, d) == Arith("BDivSmall", <<a, d>>)

\* a * 2^k
BShl(a, k) == Arith("BShl", <<a, k>>)

\* a div 2^k
BShr(a, k) == Arith("BShr", <<a, k>>)

\* the limbs of the column sums s (each under 2 * LimbBase - 1; no carry
\* leaves the last)
BCarry(s) == Arith("BCarry", <<s>>)

\* a * b: the columns of the limb products, then their carries
BMul(a, b) == Arith("BMul", <<a, b>>)

\* One step of the long division by b, whose top limb is LimbBase / 2 or
\* more: st = [j, q, r] holds the limbs left of the dividend, the quotient
\* limbs found and the remainder, and r1 is the remainder with limb j of the
\* dividend brought down.  The quotient limb is the estimate from the top
\* limbs or up to two below it.
BDivLimb(b, st, r1) == Arith("BDivLimb", <<b, st, r1>>)

\* the long division of a by b, limb by limb from the most significant
RECURSIVE BDivFrom(_, _, _)
BDivFrom(a, b, st) ==
    IF st.j = 0 THEN st ELSE BDivFrom(a, b, BDivLimb(b, st, BNorm(<<a[st.j]>> \o st.r)))

\* <<a div b, a mod b>> for b # 0
BDivMod(a, b) == Arith("BDivMod", <<a, b>>)

\* 10^n
BPow10(n) == Arith("BPow10", <<n>>)


\* The float nearest to (-1)^neg * M * 2^E (+ a little, when sticky), ties to
\* the even significand; an overflow gives an infinity.
FRound(neg, M, E, sticky) == Arith("FRound", <<neg, M, E, sticky>>)

\* FRound with k, the number of low bits of M that do not fit
FRoundAt(neg, M, E, sticky, k) == Arith("FRoundAt", <<neg, M, E, sticky, k>>)

\* `n as f64` for a small natural n
FFromNat(n) == Arith("FFromNat", <<n>>)

\* x + y
FAdd(x, y) == Arith("FAdd", <<x, y>>)

\* x * y
FMul(x, y) == Arith("FMul", <<x, y>>)

\* x / y
FDiv(x, y) == Arith("FDiv", <<x, y>>)

\* The float nearest to c * 10^q for a natural c (given as limbs): what an f64
\* literal of the program text, or a correctly rounded conversion, denotes.
FDec(neg, c, q) == Arith("FDec", <<neg, c, q>>)

\* 10_f64.powi(n) for n >= 0: the square-and-multiply loop of the compiler's
\* powi builtin, every product rounded
PowiLoop(a, b, r) == Arith("PowiLoop", <<a, b, r>>)

Powi10(n) == Arith("Powi10", <<n>>)

\* the natural an integer-valued float holds, -1 when it is 400 or more
FToSmallNat(f) == Arith("FToSmallNat", <<f>>)

\* 10_f64.powf(exp) or 10_f64.powf(-exp) for the non-negative whole number exp
\* the exponent digits gave: the float nearest to the power of ten, or the
\* next above it on the powers in PowfAbove (beyond 10^400 an infinity, below
\* 10^-400 zero)
Powf10(exp, exp_is_negative) == Arith("Powf10", <<exp, exp_is_negative>>)

\* whether m * 2^e >= 10^k
GePow10(m, e, k) == Arith("GePow10", <<m, e, k>>)

DecExpUp(m, e, k) == Arith("DecExpUp", <<m, e, k>>)

DecExpDown(m, e, k) == Arith("DecExpDown", <<m, e, k>>)

\* the least k with m * 2^e < 10^k
DecExp(m, e) == Arith("DecExp", <<m, e>>)

\* the decimal digits of a natural, most significant first, four at a time
RECURSIVE BDigits(_)
BDigits(a) ==
    LET qr == BDivSmall(a, 10000)
        d4 == <<qr[2] \div 1000, (qr[2] \div 100) % 10, (qr[2] \div 10) % 10, qr[2] % 10>>
    IN  IF a = <<>> THEN <<>>
        ELSE IF qr[1] # <<>> THEN BDigits(qr[1]) \o d4
        ELSE IF qr[2] >= 1000 THEN d4
        ELSE IF qr[2] >= 100 THEN SubSeq(d4, 2, 4)
        ELSE IF qr[2] >= 10 THEN SubSeq(d4, 3, 4)
        ELSE SubSeq(d4, 4, 4)

\* d without its zeros at the end
StripZeros(d) ==
    IF d = <<>> \/ d[Len(d)] # 0 THEN d
    ELSE LET nz == {j \in 1..Len(d) : d[j] # 0}
         IN  IF nz = {} THEN <<>>
             ELSE SubSeq(d, 1, CHOOSE j \in nz : \A k \in nz : k <= j)

\* The decimal of n digits that reads back as the float f > 0, f being under
\* 10^k: [digits, exp], f being near 0.digits * 10^exp; no digits when no
\* decimal of n digits reads back.  The candidates are the n digits below f
\* and the next above, the nearer to f first.
ShortestTry(f, k, n) == Arith("ShortestTry", <<f, k, n>>)

\* write!(f, "{}", x) for a finite f64: Display prints the shortest digits
\* that read back as x, without an exponent, and "-0" for the negative zero
FmtF64(f) == Arith("FmtF64", <<f>>)

\* exp = exp * 10. + (c - b'0') as f64; i += 1
ExpStep(bytes, st) == Arith("ExpStep", <<bytes, st>>)

\* while let Some(c @ b'0'..=b'9') = bytes.get(i) { .. }: st = [i, exp]
RECURSIVE ExpLoop(_, _)
ExpLoop(bytes, st) ==
    IF ~IsDigit(Get(bytes, st.i)) THEN st ELSE ExpLoop(bytes, ExpStep(bytes, st))

\* one iteration of the digit loop of a number: the next state
\* [i, num, decimal_places], or [ok, i, num, err] when the loop ends
NumStep(bytes, st) == Arith("NumStep", <<bytes, st>>)

\* the digit loop of a number: a state with the field ok is one the loop has
\* ended in
RECURSIVE NumLoop(_, _)
NumLoop(bytes, st) ==
    IF "ok" \in DOMAIN st THEN st ELSE NumLoop(bytes, NumStep(bytes, st))

\* a number scan that takes a 0 before further digits of the integer part
ScanNumberAnyZero(bytes, i0) ==
    LET is_negative == Get(bytes, i0) = Minus
        i   == IF is_negative THEN i0 + 1 ELSE i0
        c   == Get(bytes, i)
        res == NumLoop(bytes, [i |-> i, num |-> FFromNat(c - Digit0), decimal_places |-> 0])
    IN  IF IsDigit(c)
        THEN [res EXCEPT !.num = IF is_negative THEN FNeg(res.num) ELSE res.num]
        ELSE [ok |-> FALSE, i |-> i, num |-> FZero(FALSE), err |-> "unexpected character"]

\* A number token at byte i: [ok, i, num, err], i the index after the token
ScanNumber(bytes, i0) == Arith("ScanNumber", <<bytes, i0>>)

\* The body of a string literal from byte i on (the opening quote is read):
\* [ok, i, s, err], i the index after the closing quote, s the content.
ScanString(bytes, i, s) == Arith("ScanString", <<bytes, i, s>>)

\* the byte at `end` stops the scan of the literal: the closing quote, an escape (lines 405-435) or a control character
ScanStop(bytes, end, s1) == Arith("ScanStop", <<bytes, end, s1>>)

\* a \\u escape at `end`, cp1 the value of its four digits (-1 if they do not parse)
ScanUnicode(bytes, end, s1, cp1) == Arith("ScanUnicode", <<bytes, end, s1, cp1>>)

\* a second escape that is never joined to the first
ScanPairApart(bytes, end, s1, cp1, cp2) ==
    ScanString(bytes, end + 6, s1 \o CharFromU32OrReplacement(cp1))

\* a high surrogate followed by a second \\u escape, cp2 the value of its digits
ScanPair(bytes, end, s1, cp1, cp2) == Arith("ScanPair", <<bytes, end, s1, cp1, cp2>>)

\* the first byte from i on that ends a run of plain string content: a quote,
\* a backslash or a control character; -1 when the input ends first
NextStop(bytes, i) ==
    LET stops == {j \in i..(Len(bytes) - 1) :
                     \/ bytes[j + 1] = Quote
                     \/ bytes[j + 1] = Backslash
                     \/ IsAsciiControl(bytes[j + 1])}
    IN  IF stops = {} THEN -1 ELSE CHOOSE j \in stops : \A k \in stops : j <= k

\* `?` inside the string scan
ScanFail(end, s1, msg) == [ok |-> FALSE, i |-> end, s |-> s1, err |-> msg]

\* the finite float of significand m and exponent e, an infinity past MaxExp
FPack(neg, m, e) ==
    IF m = <<>> THEN FZero(neg)
    ELSE IF e > MaxExp THEN FInf(neg)
    ELSE [k |-> "fin", neg |-> neg, m |-> m, e |-> e]

\* the number of significant decimal digits that tells any two f64 apart
MaxDigits == 17

\* the f64 next above a finite x > 0
FNextUp(x) ==
    LET m1 == BAdd(x.m, <<1>>)
    IN  IF BitLen(m1) > MantBits THEN FPack(x.neg, BShr(m1, 1), x.e + 1)
        ELSE FPack(x.neg, m1, x.e)

\* f64::powf is the pow of the C library, which is within one unit in the
\* last place of the power and not always the nearest f64: of the powers of
\* ten, 10^23 and 10^210 come out as the f64 next above the nearest one
\* (10_f64.powf(23.0) is 0x44b52d02c7e14af7), every other is the nearest.
PowfAbove == {23, 210}

\* the digits found, without their trailing zeros, and the decimal exponent
ShortestOut(q, dg) == [digits |-> StripZeros(dg), exp |-> q + Len(dg)]

\* The shortest decimal that reads back as the float f > 0 (the nearest to f
\* among the shortest), f being under 10^k: the numbers of digits are tried
\* from n on, up to MaxDigits.
RECURSIVE Shortest(_, _, _)
Shortest(f, k, n) ==
    LET cand == ShortestTry(f, k, n)
    IN  IF cand.digits # <<>> \/ n >= MaxDigits THEN cand ELSE Shortest(f, k, n + 1)

\* the digits d laid out around the decimal point, without an exponent
FmtLay(sign, d, exp) ==
    IF exp <= 0 THEN sign \o <<Digit0, Dot>> \o Zeros(-exp) \o d
    ELSE IF exp < Len(d)
    THEN sign \o SubSeq(d, 1, exp) \o <<Dot>> \o SubSeq(d, exp + 1, Len(d))
    ELSE sign \o d \o Zeros(exp - Len(d))

\* the decimal digits as characters
FmtDigits(sign, sd) == FmtLay(sign, [j \in 1..Len(sd.digits) |-> Digit0 + sd.digits[j]], sd.exp)

Arith(op, args) ==
    CASE op = "BAdd" ->
             LET a == args[1]
                 b == args[2]
             IN
               LET n    == Max(Len(a), Len(b)) + 1
                   s    == [j \in 1..n |-> BLimb(a, j) + BLimb(b, j)]
                   full == [j \in 1..n |-> (s[j] + CarryIn(s, j, 0)) % LimbBase]
               IN  SubSeq(full, 1, IF full[n] = 0 THEN n - 1 ELSE n)
      [] op = "BSub" ->
             LET a == args[1]
                 b == args[2]
             IN
               \* a + (LimbBase^n - 1 - b) + 1, less LimbBase^n
               LET s == [j \in 1..Len(a) |-> BLimb(a, j) + (LimbBase - 1 - BLimb(b, j))]
               IN  BNorm([j \in 1..Len(a) |-> (s[j] + CarryIn(s, j, 1)) % LimbBase])
      [] op = "BMulSmall" ->
             LET a == args[1]
                 m == args[2]
             IN
               \* the low halves of the limb products and, one limb up, their high halves
               LET n    == Len(a) + 1
                   s    == [j \in 1..n |->
                               ((BLimb(a, j) * m) % LimbBase) + ((BLimb(a, j - 1) * m) \div LimbBase)]
                   full == [j \in 1..n |-> (s[j] + CarryIn(s, j, 0)) % LimbBase]
               IN  IF m = 0 \/ a = <<>> THEN <<>>
                   ELSE SubSeq(full, 1, IF full[n] = 0 THEN n - 1 ELSE n)
      [] op = "BDivSmall" ->
             LET a == args[1]
                 d == args[2]
             IN
               LET res == BDivSmallC(a, d, Len(a), 1, 0)
               IN  <<BNorm(Reverse(res[1])), res[2]>>
      [] op = "BShl" ->
             LET a == args[1]
                 k == args[2]
             IN
               LET q == k \div LimbBits
                   r == k % LimbBits
                   n == Len(a) + q + 1
                   full == [j \in 1..n |->
                              IF j <= q THEN 0
                              ELSE (BLimb(a, j - q) % (2 ^ (LimbBits - r))) * (2 ^ r)
                                   + (BLimb(a, j - q - 1) \div (2 ^ (LimbBits - r)))]
               IN  IF a = <<>> THEN <<>>
                   ELSE SubSeq(full, 1, IF full[n] = 0 THEN n - 1 ELSE n)
      [] op = "BShr" ->
             LET a == args[1]
                 k == args[2]
             IN
               LET q == k \div LimbBits
                   r == k % LimbBits
               IN  BNorm([j \in 1..(Len(a) - q) |->
                             (a[j + q] \div (2 ^ r))
                             + (BLimb(a, j + q + 1) % (2 ^ r)) * (2 ^ (LimbBits - r))])
      [] op = "BMul" ->
             LET a == args[1]
                 b == args[2]
             IN
               IF a = <<>> \/ b = <<>> THEN <<>>
               ELSE BCarry(SubSeq([k \in 1..(Len(a) + Len(b)) |->
                                       (BMulCol(a, b, k) % LimbBase) + (BMulCol(a, b, k - 1) \div LimbBase)],
                                   1, Len(a) + Len(b)))
      [] op = "BCarry" ->
             LET s == args[1]
             IN
               BNorm([j \in 1..Len(s) |-> (s[j] + CarryIn(s, j, 0)) % LimbBase])
      [] op = "BDivLimb" ->
             LET b == args[1]
                 st == args[2]
                 r1 == args[3]
             IN
               LET est == Min((BLimb(r1, Len(b) + 1) * LimbBase + BLimb(r1, Len(b))) \div b[Len(b)],
                              LimbBase - 1)
                   q   == IF BCmp(BMulSmall(b, est), r1) <= 0 THEN est
                          ELSE IF BCmp(BMulSmall(b, est - 1), r1) <= 0 THEN est - 1
                          ELSE est - 2
               IN  [j |-> st.j - 1, q |-> <<q>> \o st.q, r |-> BSub(r1, BMulSmall(b, q))]
      [] op = "BDivMod" ->
             LET a == args[1]
                 b == args[2]
             IN
               \* both are shifted so that the top limb of the divisor has its top
               \* bit set; the top limbs of the dividend, fewer than the divisor
               \* has, are the first remainder
               LET sh  == LimbBits - SmallBitLen(b[Len(b)])
                   aa  == BShl(a, sh)
                   bb  == BShl(b, sh)
                   n   == Len(aa) - Len(bb) + 1
                   res == BDivFrom(aa, bb, [j |-> n, q |-> <<>>, r |-> SubSeq(aa, n + 1, Len(aa))])
               IN  IF n <= 0 THEN <<<<>>, a>>
                   ELSE <<BNorm(res.q), BShr(res.r, sh)>>
      [] op = "BPow10" ->
             LET n == args[1]
             IN
               LET half == BPow10(n \div 2)
               IN  IF n < 10 THEN BFromNat(10 ^ n)
                   ELSE (CASE IsLimbs(half) ->
                             IF n % 2 = 1 THEN BMulSmall(BMul(half, half), 10) ELSE BMul(half, half))
      [] op = "FRound" ->
             LET neg == args[1]
                 M == args[2]
                 E == args[3]
                 sticky == args[4]
             IN
               IF M = <<>> THEN FZero(neg)
               ELSE FRoundAt(neg, M, E, sticky, Max(BitLen(M) - MantBits, MinExp - E))
      [] op = "FRoundAt" ->
             LET neg == args[1]
                 M == args[2]
                 E == args[3]
                 sticky == args[4]
                 k == args[5]
             IN
               LET kept == BShr(M, k)
                   up   == /\ BBit(M, k - 1) = 1
                           /\ (sticky \/ BLowBits(M, k - 1) \/ BBit(kept, 0) = 1)
                   m1   == IF up THEN BAdd(kept, <<1>>) ELSE kept
               IN  IF M = <<>> THEN FZero(neg)
                   ELSE IF k <= 0
                   THEN IF E + k > MaxExp THEN FInf(neg)
                        ELSE [k |-> "fin", neg |-> neg, m |-> BShl(M, -k), e |-> E + k]
                   ELSE IF BitLen(m1) > MantBits THEN FPack(neg, BShr(m1, 1), E + k + 1)
                   ELSE FPack(neg, m1, E + k)
      [] op = "FFromNat" ->
             LET n == args[1]
             IN
               FRound(FALSE, BFromNat(n), 0, FALSE)
      [] op = "FAdd" ->
             LET x == args[1]
                 y == args[2]
             IN
               IF x.k = "nan" \/ y.k = "nan" THEN FNaN
               ELSE IF x.k = "inf" /\ y.k = "inf" THEN (IF x.neg = y.neg THEN x ELSE FNaN)
               ELSE IF x.k = "inf" THEN x
               ELSE IF y.k = "inf" THEN y
               ELSE IF FIsZero(x) /\ FIsZero(y) THEN FZero(x.neg /\ y.neg)
               ELSE IF FIsZero(x) THEN y
               ELSE IF FIsZero(y) THEN x
               ELSE LET e0 == Min(x.e, y.e)
                        X  == BShl(x.m, x.e - e0)
                        Y  == BShl(y.m, y.e - e0)
                        c  == BCmp(X, Y)
                    IN  IF x.neg = y.neg THEN FRound(x.neg, BAdd(X, Y), e0, FALSE)
                        ELSE IF c = 0 THEN FZero(FALSE)
                        ELSE IF c > 0 THEN FRound(x.neg, BSub(X, Y), e0, FALSE)
                        ELSE FRound(y.neg, BSub(Y, X), e0, FALSE)
      [] op = "FMul" ->
             LET x == args[1]
                 y == args[2]
             IN
               IF x.k = "nan" \/ y.k = "nan" THEN FNaN
               ELSE IF (x.k = "inf" /\ FIsZero(y)) \/ (y.k = "inf" /\ FIsZero(x)) THEN FNaN
               ELSE IF x.k = "inf" \/ y.k = "inf" THEN FInf(x.neg # y.neg)
               ELSE IF FIsZero(x) \/ FIsZero(y) THEN FZero(x.neg # y.neg)
               ELSE FRound(x.neg # y.neg, BMul(x.m, y.m), x.e + y.e, FALSE)
      [] op = "FDiv" ->
             LET x == args[1]
                 y == args[2]
             IN
               IF x.k = "nan" \/ y.k = "nan" THEN FNaN
               ELSE IF (x.k = "inf" /\ y.k = "inf") \/ (FIsZero(x) /\ FIsZero(y)) THEN FNaN
               ELSE IF x.k = "inf" \/ FIsZero(y) THEN FInf(x.neg # y.neg)
               ELSE IF y.k = "inf" \/ FIsZero(x) THEN FZero(x.neg # y.neg)
               ELSE LET s  == Max(0, BitLen(y.m) + MantBits + 3 - BitLen(x.m))
                        qr == BDivMod(BShl(x.m, s), y.m)
                    IN  (CASE IsLimbs(qr[1]) ->
                              FRound(x.neg # y.neg, qr[1], x.e - y.e - s, qr[2] # <<>>))
      [] op = "FDec" ->
             LET neg == args[1]
                 c == args[2]
                 q == args[3]
             IN
               LET d  == BPow10(IF q >= 0 THEN q ELSE -q)
                   s  == Max(0, BitLen(d) + MantBits + 3 - BitLen(c))
                   qr == BDivMod(BShl(c, s), d)
               IN  IF c = <<>> THEN FZero(neg)
                   ELSE IF q >= 0 THEN (CASE IsLimbs(d) -> FRound(neg, BMul(c, d), 0, FALSE))
                   ELSE (CASE IsLimbs(d) /\ IsLimbs(qr[1]) -> FRound(neg, qr[1], -s, qr[2] # <<>>))
      [] op = "PowiLoop" ->
             LET a == args[1]
                 b == args[2]
                 r == args[3]
             IN
               LET r2 == IF b % 2 = 1 THEN FMul(r, a) ELSE r
               IN  IF r2.k = "nan" \/ b \div 2 = 0 THEN r2
                   ELSE PowiLoop(FMul(a, a), b \div 2, r2)
      [] op = "Powi10" ->
             LET n == args[1]
             IN
               PowiLoop(FFromNat(10), n, FFromNat(1))
      [] op = "FToSmallNat" ->
             LET f == args[1]
             IN
               IF f.k # "fin" THEN -1
               ELSE IF f.m = <<>> THEN 0
               ELSE IF f.e >= 0 THEN -1
               ELSE LET n == BShr(f.m, -f.e)
                    IN  IF Len(n) > 1 \/ n[1] >= 400 THEN -1 ELSE n[1]
      [] op = "Powf10" ->
             LET exp == args[1]
                 exp_is_negative == args[2]
             IN
               LET n == FToSmallNat(exp)
                   r == FDec(FALSE, <<1>>, IF exp_is_negative THEN -n ELSE n)
               IN  IF exp.k = "nan" THEN FNaN
                   ELSE IF n < 0 THEN (IF exp_is_negative THEN FZero(FALSE) ELSE FInf(FALSE))
                   ELSE IF ~exp_is_negative /\ n \in PowfAbove THEN (CASE IsF64(r) -> FNextUp(r))
                   ELSE r
      [] op = "GePow10" ->
             LET m == args[1]
                 e == args[2]
                 k == args[3]
             IN
               BCmp(BMul(BShl(m, Max(e, 0)), BPow10(Max(-k, 0))),
                    BMul(BShl(<<1>>, Max(-e, 0)), BPow10(Max(k, 0)))) >= 0
      [] op = "DecExpUp" ->
             LET m == args[1]
                 e == args[2]
                 k == args[3]
             IN
               IF GePow10(m, e, k) THEN DecExpUp(m, e, k + 1) ELSE k
      [] op = "DecExpDown" ->
             LET m == args[1]
                 e == args[2]
                 k == args[3]
             IN
               IF GePow10(m, e, k - 1) THEN k ELSE DecExpDown(m, e, k - 1)
      [] op = "DecExp" ->
             LET m == args[1]
                 e == args[2]
             IN
               LET k0 == ((e + BitLen(m) - 1) * 30103) \div 100000
               IN  IF GePow10(m, e, k0) THEN DecExpUp(m, e, k0 + 1) ELSE DecExpDown(m, e, k0)
      [] op = "ShortestTry" ->
             LET f == args[1]
                 k == args[2]
                 n == args[3]
             IN
               \* den is the weight of the last of the n digits as a denominator,
               \* qr[1] the n digits below f
               LET den  == BMul(BShl(<<1>>, Max(-f.e, 0)), BPow10(Max(k - n, 0)))
                   qr   == BDivMod(BMul(BShl(f.m, Max(f.e, 0)), BPow10(Max(n - k, 0))), den)
                   lok  == qr[1] # <<>> /\ FDec(FALSE, qr[1], k - n) = f
                   hok  == FDec(FALSE, BAdd(qr[1], <<1>>), k - n) = f
                   \* the candidate above is at least as near as the one below
                   near == BCmp(BMulSmall(qr[2], 2), den) >= 0
               IN  (CASE IsLimbs(den) /\ IsLimbs(qr[1]) ->
                         IF hok /\ (~lok \/ near) THEN ShortestOut(k - n, BDigits(BAdd(qr[1], <<1>>)))
                         ELSE IF lok THEN ShortestOut(k - n, BDigits(qr[1]))
                         ELSE [digits |-> <<>>, exp |-> 0])
      [] op = "FmtF64" ->
             LET f == args[1]
             IN
               LET sd == Shortest([f EXCEPT !.neg = FALSE], DecExp(f.m, f.e), 1)
               IN  IF f.m = <<>> THEN (IF f.neg THEN <<Minus, Digit0>> ELSE <<Digit0>>)
                   ELSE (CASE sd.digits # <<>> ->
                             FmtDigits(IF f.neg THEN <<Minus>> ELSE <<>>, sd))
      [] op = "ExpStep" ->
             LET bytes == args[1]
                 st == args[2]
             IN
               LET tens == FMul(st.exp, FFromNat(10))
               IN  (CASE IsF64(tens) ->
                        [i   |-> st.i + 1,
                         exp |-> FAdd(tens, FFromNat(Get(bytes, st.i) - Digit0))])
      [] op = "NumStep" ->
             LET bytes == args[1]
                 st == args[2]
             IN
               LET i == st.i + 1
                   c == Get(bytes, i)
                   d == FFromNat(c - Digit0)
                   place == Powi10(st.decimal_places)
                   frac  == FDiv(d, place)
                   tens  == FMul(st.num, FFromNat(10))
               IN  IF IsDigit(c) /\ st.decimal_places > 0
                   THEN (CASE IsF64(place) /\ IsF64(frac) ->
                             [i |-> i,
                              num |-> FAdd(st.num, frac),
                              decimal_places |-> st.decimal_places + 1])
                   ELSE IF IsDigit(c)
                   THEN (CASE IsF64(tens) ->
                             [i |-> i,
                              num |-> FAdd(tens, d),
                              decimal_places |-> st.decimal_places])
                   ELSE IF c = Dot /\ st.decimal_places = 0
                   THEN [i |-> i, num |-> st.num, decimal_places |-> 1]
                   ELSE IF c = LowerE \/ c = UpperE
                   THEN LET c0 == Get(bytes, i + 1)
                            exp_is_negative == c0 = Minus
                            ex == ExpLoop(bytes, [i   |-> i + 2,
                                                  exp |-> IF IsDigit(c0) THEN FFromNat(c0 - Digit0)
                                                          ELSE FZero(FALSE)])
                        IN  IF c0 < 0
                            THEN [ok |-> FALSE, i |-> i + 1, num |-> st.num, err |-> "unexpected end of input"]
                            ELSE IF ~(IsDigit(c0) \/ c0 = Minus \/ c0 = Plus)
                            THEN [ok |-> FALSE, i |-> i + 1, num |-> st.num, err |-> "unexpected character"]
                            ELSE (CASE IsF64(Powf10(ex.exp, exp_is_negative)) ->
                                      [ok |-> TRUE, i |-> ex.i,
                                       num |-> FMul(st.num, Powf10(ex.exp, exp_is_negative)),
                                       err |-> ""])
                   ELSE [ok |-> TRUE, i |-> i, num |-> st.num, err |-> ""]
      [] op = "ScanNumber" ->
             LET bytes == args[1]
                 i0 == args[2]
             IN
               LET is_negative == bytes[i0 + 1] = Minus
                   i  == IF is_negative THEN i0 + 1 ELSE i0
                   c  == Get(bytes, i)
                   c2 == Get(bytes, i + 1)
                   res == NumLoop(bytes, [i |-> i, num |-> FFromNat(c - Digit0), decimal_places |-> 0])
               IN  IF c = Digit0 /\ IsDigit(c2)
                   THEN [ok |-> FALSE, i |-> i, num |-> FZero(FALSE), err |-> "illegal leading zero"]
                   ELSE IF IsDigit(c)
                   THEN [res EXCEPT !.num = IF is_negative THEN FNeg(res.num) ELSE res.num]
                   ELSE IF c >= 0
                   THEN [ok |-> FALSE, i |-> i, num |-> FZero(FALSE), err |-> "unexpected character"]
                   ELSE [ok |-> FALSE, i |-> i, num |-> FZero(FALSE), err |-> "unexpected end of input"]
      [] op = "ScanString" ->
             LET bytes == args[1]
                 i == args[2]
                 s == args[3]
             IN
               LET end == NextStop(bytes, i)
               IN  IF end < 0 THEN [ok |-> FALSE, i |-> i, s |-> s, err |-> "missing end quote"]
                   ELSE ScanStop(bytes, end, s \o SubSeq(bytes, i + 1, end))
      [] op = "ScanStop" ->
             LET bytes == args[1]
                 end == args[2]
                 s1 == args[3]
             IN
               LET c  == bytes[end + 1]
                   c2 == Get(bytes, end + 1)
               IN  IF c = Quote THEN [ok |-> TRUE, i |-> end + 1, s |-> s1, err |-> ""]
                   ELSE IF c # Backslash THEN ScanFail(end, s1, "illegal control character")
                   ELSE IF c2 = Quote THEN ScanString(bytes, end + 2, s1 \o <<Quote>>)
                   ELSE IF c2 = Backslash THEN ScanString(bytes, end + 2, s1 \o <<Backslash>>)
                   ELSE IF c2 = Slash THEN ScanString(bytes, end + 2, s1 \o <<Slash>>)
                   ELSE IF c2 = LowerB THEN ScanString(bytes, end + 2, s1 \o <<Bs>>)
                   ELSE IF c2 = LowerF THEN ScanString(bytes, end + 2, s1 \o <<Ff>>)
                   ELSE IF c2 = LowerN THEN ScanString(bytes, end + 2, s1 \o <<Lf>>)
                   ELSE IF c2 = LowerR THEN ScanString(bytes, end + 2, s1 \o <<Cr>>)
                   ELSE IF c2 = LowerT THEN ScanString(bytes, end + 2, s1 \o <<Tab>>)
                   ELSE IF c2 = LowerU THEN ScanUnicode(bytes, end, s1, HexAt(bytes, end + 2, end + 6))
                   ELSE IF c2 >= 0 THEN ScanFail(end, s1, "invalid escape sequence")
                   ELSE ScanFail(end, s1, "missing escape sequence")
      [] op = "ScanUnicode" ->
             LET bytes == args[1]
                 end == args[2]
                 s1 == args[3]
                 cp1 == args[4]
             IN
               IF cp1 < 0 THEN ScanFail(end, s1, "invalid hex string")
               ELSE IF cp1 >= 55296 /\ cp1 < 56320 /\ SliceIs(bytes, end + 6, end + 8, <<Backslash, LowerU>>)
               THEN ScanPair(bytes, end, s1, cp1, HexAt(bytes, end + 8, end + 12))
               ELSE ScanString(bytes, end + 6, s1 \o CharFromU32OrReplacement(cp1))
      [] op = "ScanPair" ->
             LET bytes == args[1]
                 end == args[2]
                 s1 == args[3]
                 cp1 == args[4]
                 cp2 == args[5]
             IN
               IF cp2 < 0 THEN ScanFail(end, s1, "invalid hex string")
               ELSE IF cp2 >= 56320 /\ cp2 - 56320 < 57344 - 56320
               THEN ScanString(bytes, end + 12,
                        s1 \o CharFromU32OrReplacement(65536 + (cp2 - 56320) + (cp1 - 55296) * 1024))
               ELSE ScanString(bytes, end + 6, s1 \o CharFromU32OrReplacement(cp1))

(***************************************************************************)
(* JsonValue.  An Object is a function from its keys (byte strings) to     *)
(* values: a HashMap has no order of its own.                              *)
(***************************************************************************)
Null == [t |-> "Null"]
Boolean(b) == [t |-> "Boolean", b |-> b]
Number(f) == [t |-> "Number", n |-> f]
String(s) == [t |-> "String", s |-> s]
List(l) == [t |-> "List", l |-> l]
Object(o) == [t |-> "Object", o |-> o]

EmptyMap == [k \in {} |-> Null]

\* an insert that leaves the value of a present key alone
MapInsertKeepFirst(o, key, val) ==
    [k \in (DOMAIN o) \cup {key} |-> IF k \in DOMAIN o THEN o[k] ELSE val]

\* HashMap::insert: a present key keeps its place and takes the new value
MapInsert(o, key, val) == [k \in (DOMAIN o) \cup {key} |-> IF k = key THEN val ELSE o[k]]

\* a conversion that lets every float through
FiniteTryFromUnchecked(f) == [ok |-> TRUE, val |-> f]

\* TryFrom<f64> for FiniteF64: Ok exactly for a finite value
FiniteTryFrom(f) == [ok |-> FIsFinite(f), val |-> f]

\* From<FiniteF64> for JsonValue
JsonFromFinite(f) == Number(f)

\* a From<f64> that wraps whatever it is given
JsonFromF64Any(f) == Number(f)

\* From<f64> for JsonValue: FiniteF64::try_from(val).map_or(Null, JsonValue::from)
JsonFromF64(f) == IF FiniteTryFrom(f).ok THEN JsonFromFinite(FiniteTryFrom(f).val) ELSE Null

(***************************************************************************)
(* The parser, FromStr::from_str.  Indices are 0-based as in the source:   *)
(* byte i of the input is bytes[i + 1] here.                               *)
(***************************************************************************)
\* the parse modes, enum Expecting
Expecting == {"CommaOrBrace", "CommaOrBracket", "Key", "KeyOrBrace", "Value", "ValueOrBracket"}

\* After a string read in key position: the index after the ':' that follows
\* optional whitespace, or -1 for "missing colon"
ColonAfter(bytes, i) ==
    LET rest == {j \in i..(Len(bytes) - 1) : ~IsWs(bytes[j + 1])}
        pos  == CHOOSE j \in rest : \A k \in rest : j <= k
    IN  IF rest = {} THEN -1
        ELSE IF bytes[pos + 1] = Colon THEN pos + 1
        ELSE -1

\* the parser's locals as it enters `loop`
ParseInit(input) ==
    [input |-> input, i |-> 0, stack |-> <<>>, key_stack |-> <<>>, expect |-> "Value",
     status |-> "run", val |-> Null, err |-> ""]

\* `?` on an Err: the function returns it, and the containers built so far are dropped
ParseErr(ps, msg) == [ps EXCEPT !.status = "err", !.err = msg]

\* a completion that leaves the mode as it was
CompleteSameMode(ps, next) ==
    LET n   == Len(ps.stack)
        top == ps.stack[n]
    IN  IF n > 0 /\ top.t = "List"
        THEN [ps EXCEPT !.stack[n] = List(Append(top.l, next))]
        ELSE IF n > 0 /\ top.t = "Object"
        THEN IF ps.key_stack = <<>>
             THEN [ps EXCEPT !.status = "panic", !.err = "key_stack.pop().unwrap()"]
             ELSE [ps EXCEPT !.stack[n] = Object(MapInsert(top.o, ps.key_stack[Len(ps.key_stack)], next)),
                             !.key_stack = SubSeq(ps.key_stack, 1, Len(ps.key_stack) - 1)]
        ELSE IF ps.i = Len(ps.input)
        THEN [ps EXCEPT !.status = "ok", !.val = next]
        ELSE ps

\* lines 521-532: the finished value `next` goes into the container on top of
\* the stack, or is returned when no container is open and the input is used up
Complete(ps, next) ==
    LET n   == Len(ps.stack)
        top == ps.stack[n]
    IN  IF n > 0 /\ top.t = "List"
        THEN [ps EXCEPT !.stack[n] = List(Append(top.l, next)), !.expect = "CommaOrBracket"]
        ELSE IF n > 0 /\ top.t = "Object"
        THEN IF ps.key_stack = <<>>
             THEN [ps EXCEPT !.status = "panic", !.err = "key_stack.pop().unwrap()"]
             ELSE [ps EXCEPT !.stack[n] = Object(MapInsert(top.o, ps.key_stack[Len(ps.key_stack)], next)),
                             !.key_stack = SubSeq(ps.key_stack, 1, Len(ps.key_stack) - 1),
                             !.expect = "CommaOrBrace"]
        ELSE IF ps.i = Len(ps.input)
        THEN [ps EXCEPT !.status = "ok", !.val = next]
        ELSE ps

\* an end of input that hands back the outermost container read so far
ParseEofPartial(ps) ==
    IF ps.stack = <<>> THEN ParseErr(ps, "unexpected end of input")
    ELSE [ps EXCEPT !.status = "ok", !.val = ps.stack[1]]

\* bytes.get(i).ok_or("unexpected end of input")? at the end of the input
ParseEof(ps) == ParseErr(ps, "unexpected end of input")

\* closers that match in the modes of either container kind
CloserModesEither(c) ==
    IF c \in {RBrace, RBracket}
    THEN {"CommaOrBrace", "KeyOrBrace", "CommaOrBracket", "ValueOrBracket"}
    ELSE {}

\* closers that match after a comma as well
CloserModesAfterComma(c) ==
    IF c = RBrace THEN {"CommaOrBrace", "KeyOrBrace", "Key"}
    ELSE IF c = RBracket THEN {"CommaOrBracket", "ValueOrBracket", "Value"}
    ELSE {}

\* the modes in which the arms for b'}' and b']' match
CloserModes(c) ==
    IF c = RBrace THEN {"CommaOrBrace", "KeyOrBrace"}
    ELSE IF c = RBracket THEN {"CommaOrBracket", "ValueOrBracket"}
    ELSE {}

\* a closer arm that leaves the index where it is
PopAndCompleteInPlace(ps, msg) ==
    IF ps.stack = <<>> THEN ParseErr(ps, msg)
    ELSE Complete([ps EXCEPT !.stack = SubSeq(ps.stack, 1, Len(ps.stack) - 1)],
                  ps.stack[Len(ps.stack)])

\* stack.pop().ok_or(msg)?, then the completion of the popped container
PopAndComplete(ps, msg) ==
    IF ps.stack = <<>> THEN ParseErr([ps EXCEPT !.i = ps.i + 1], msg)
    ELSE Complete([ps EXCEPT !.i = ps.i + 1, !.stack = SubSeq(ps.stack, 1, Len(ps.stack) - 1)],
                  ps.stack[Len(ps.stack)])

\* a key arm that puts the key under the pending ones
KeyArmUnder(ps, key, colon) ==
    IF colon < 0 THEN ParseErr(ps, "missing colon")
    ELSE [ps EXCEPT !.i = colon, !.key_stack = <<key>> \o ps.key_stack, !.expect = "Value"]

\* lines 445-456: colon is the index after the ':' that follows the key, or -1
KeyArm(ps, key, colon) ==
    IF colon < 0 THEN ParseErr(ps, "missing colon")
    ELSE [ps EXCEPT !.i = colon, !.key_stack = Append(ps.key_stack, key), !.expect = "Value"]

\* lines 390-459, after the string literal was read: str is the result of the
\* scan; in key position the colon is skipped and the key pushed
StringArm(ps, str) ==
    IF ~str.ok THEN ParseErr([ps EXCEPT !.i = str.i], str.err)
    ELSE IF ps.expect \in {"Key", "KeyOrBrace"}
    THEN KeyArm([ps EXCEPT !.i = str.i], str.s, ColonAfter(ps.input, str.i))
    ELSE Complete([ps EXCEPT !.i = str.i], String(str.s))

\* lines 460-505, after the number literal was read: num is the result of the scan
NumberArm(ps, num) ==
    IF ~num.ok THEN ParseErr([ps EXCEPT !.i = num.i], num.err)
    ELSE Complete([ps EXCEPT !.i = num.i], JsonFromF64(num.num))

\* One iteration of `loop` (lines 359-533): the match arms in source order.
ParseStep(ps) ==
    LET bytes  == ps.input
        i      == ps.i
        expect == ps.expect
        c      == Get(bytes, i)
        value  == expect \in {"Value", "ValueOrBracket"}
    IN  CASE c < 0 -> ParseEof(ps)
          [] IsWs(c) /\ ps.stack # <<>> -> [ps EXCEPT !.i = i + 1]
          [] c = LBrace /\ value ->
                 [ps EXCEPT !.i = i + 1, !.expect = "KeyOrBrace",
                            !.stack = Append(ps.stack, Object(EmptyMap))]
          [] c = RBrace /\ expect \in CloserModes(c) ->
                 PopAndComplete(ps, "unexpected closing brace")
          [] c = Comma /\ expect \in {"CommaOrBracket", "CommaOrBrace"} ->
                 [ps EXCEPT !.i = i + 1,
                            !.expect = IF expect = "CommaOrBracket" THEN "Value" ELSE "Key"]
          [] c = LBracket /\ value ->
                 [ps EXCEPT !.i = i + 1, !.expect = "ValueOrBracket",
                            !.stack = Append(ps.stack, List(<<>>))]
          [] c = RBracket /\ expect \in CloserModes(c) ->
                 PopAndComplete(ps, "unexpected closing bracket")
          [] c = Quote /\ expect \in {"Value", "ValueOrBracket", "Key", "KeyOrBrace"} ->
                 StringArm(ps, ScanString(bytes, i + 1, <<>>))
          [] (c = Minus \/ IsDigit(c)) /\ value -> NumberArm(ps, ScanNumber(bytes, i))
          [] c = LowerT /\ value /\ SliceIs(bytes, i, i + 4, KwTrue) ->
                 Complete([ps EXCEPT !.i = i + 4], Boolean(TRUE))
          [] c = LowerF /\ value /\ SliceIs(bytes, i, i + 5, KwFalse) ->
                 Complete([ps EXCEPT !.i = i + 5], Boolean(FALSE))
          [] c = LowerN /\ value /\ SliceIs(bytes, i, i + 4, KwNull) ->
                 Complete([ps EXCEPT !.i = i + 4], Null)
          [] OTHER -> ParseErr(ps, "unexpected character")

RECURSIVE ParseRun(_)
ParseRun(ps) == IF ps.status # "run" THEN ps ELSE ParseRun(ParseStep(ps))

\* input.parse::<JsonValue>(): the final locals; status "ok" carries Ok(val)
Parse(input) == ParseRun(ParseInit(input))

(***************************************************************************)
(* The serializer: write_escaped, maybe_newline, serialize.                *)
(***************************************************************************)
HexLower(n) == IF n < 10 THEN Digit0 + n ELSE LowerA + (n - 10)

\* a write that escapes nothing
EscapeByteVerbatim(c) == <<c>>

\* one char of write_escaped; every byte of a multi-byte character is
\* at least 128 and is written as it is
EscapeByte(c) ==
    IF c = Quote THEN <<Backslash, Quote>>
    ELSE IF c = Lf THEN <<Backslash, LowerN>>
    ELSE IF c = Cr THEN <<Backslash, LowerR>>
    ELSE IF c = Tab THEN <<Backslash, LowerT>>
    ELSE IF c = Backslash THEN <<Backslash, Backslash>>
    ELSE IF c = Bs THEN <<Backslash, LowerB>>
    ELSE IF c = Ff THEN <<Backslash, LowerF>>
    ELSE IF IsAsciiControl(c)
    THEN <<Backslash, LowerU, Digit0, Digit0, HexLower(c \div 16), HexLower(c % 16)>>
    ELSE <<c>>

RECURSIVE EscapeFrom(_, _)
EscapeFrom(s, j) == IF j > Len(s) THEN <<>> ELSE EscapeByte(s[j]) \o EscapeFrom(s, j + 1)

WriteEscaped(s) == <<Quote>> \o EscapeFrom(s, 1) \o <<Quote>>

\* a maybe_newline that indents nothing
MaybeNewlineFlat(flag, depth) == IF ~flag THEN <<>> ELSE <<Lf>>

\* maybe_newline(f, flag, depth)
MaybeNewline(flag, depth) ==
    IF ~flag THEN <<>> ELSE <<Lf>> \o [j \in 1..depth |-> Tab]

\* the serializer's locals as it enters `loop`
SerInit ==
    [stack |-> <<[kind |-> "TopLevel"]>>, write_comma |-> FALSE,
     write_nl_before_val |-> FALSE, write_nl_after_val |-> TRUE,
     out |-> <<>>, done |-> FALSE]

\* the iterator of the item on top of the stack is exhausted (lines 256-261, 268-273)
SerClose(st, pretty, closer) ==
    LET stack == SubSeq(st.stack, 1, Len(st.stack) - 1)
    IN  [st EXCEPT !.stack = stack,
                   !.out = st.out \o MaybeNewline(st.write_nl_after_val /\ pretty, Len(stack)) \o <<closer>>,
                   !.write_nl_after_val = TRUE,
                   !.write_comma = TRUE]

\* lines 295-321: the value `next` is written; a container is opened and pushed
SerValue(st, pretty, next) ==
    LET head == st.out
                \o (IF st.write_comma THEN <<Comma>> ELSE <<>>)
                \o MaybeNewline(st.write_nl_before_val /\ pretty, Len(st.stack))
        st1  == [st EXCEPT !.write_nl_before_val = TRUE, !.write_nl_after_val = TRUE,
                           !.write_comma = TRUE]
    IN  IF next.t = "List"
        THEN [st1 EXCEPT !.out = head \o <<LBracket>>,
                         !.stack = Append(st.stack, [kind |-> "List", rest |-> next.l]),
                         !.write_comma = FALSE,
                         !.write_nl_after_val = next.l # <<>>]
        ELSE IF next.t = "Object"
        THEN [st1 EXCEPT !.out = head \o <<LBrace>>,
                         !.stack = Append(st.stack, [kind |-> "Object", map |-> next.o, rest |-> DOMAIN next.o]),
                         !.write_comma = FALSE,
                         !.write_nl_after_val = (DOMAIN next.o) # {}]
        ELSE IF next.t = "Null" THEN [st1 EXCEPT !.out = head \o KwNull]
        ELSE IF next.t = "Number" THEN [st1 EXCEPT !.out = head \o FmtF64(next.n)]
        ELSE IF next.t = "Boolean"
        THEN [st1 EXCEPT !.out = head \o (IF next.b THEN KwTrue
                                          ELSE KwFalse)]
        ELSE [st1 EXCEPT !.out = head \o WriteEscaped(next.s)]

\* the keys a hash_map::Iter may yield next: any key not yet yielded
SerChoices(st) ==
    IF st.stack # <<>> /\ st.stack[Len(st.stack)].kind = "Object" /\ st.stack[Len(st.stack)].rest # {}
    THEN st.stack[Len(st.stack)].rest
    ELSE {<<>>}

\* One iteration of `loop` in serialize (lines 251-322); key is the entry the
\* map iterator yields when the top item is an Object with entries left.
SerStep(self, pretty, st, key) ==
    LET n   == Len(st.stack)
        top == st.stack[n]
    IN  IF n = 0 THEN [st EXCEPT !.done = TRUE]
        ELSE IF top.kind = "TopLevel"
        THEN SerValue([st EXCEPT !.stack = SubSeq(st.stack, 1, n - 1)], pretty, self)
        ELSE IF top.kind = "List"
        THEN IF top.rest = <<>> THEN SerClose(st, pretty, RBracket)
             ELSE SerValue([st EXCEPT !.stack[n].rest = Tail(top.rest)], pretty, Head(top.rest))
        ELSE IF top.rest = {} THEN SerClose(st, pretty, RBrace)
             ELSE SerValue(
                    [st EXCEPT !.stack[n].rest = top.rest \ {key},
                               !.out = st.out
                                       \o (IF st.write_comma THEN <<Comma>> ELSE <<>>)
                                       \o MaybeNewline(pretty, n)
                                       \o WriteEscaped(key)
                                       \o <<Colon>>
                                       \o (IF pretty THEN <<Space>> ELSE <<>>),
                               !.write_comma = FALSE,
                               !.write_nl_before_val = FALSE],
                    pretty, top.map[key])

(***************************************************************************)
(* Equality (PartialEq::eq), clone, and the conversions.                   *)
(***************************************************************************)
\* the orders in which the iterator of a HashMap may yield the keys S: the
\* order depends on the map's hasher, whose seed is random, so any order is
\* possible
IterOrders(S) ==
    {s \in [1..Cardinality(S) -> S] : \A i, j \in 1..Cardinality(S) : s[i] = s[j] => i = j}

\* the two work lists as eq enters its loop
EqInit(lhs, rhs) == [lhs_stack |-> <<lhs>>, rhs_stack |-> <<rhs>>, result |-> "run"]

\* a List arm without its length guard
EqListArmUnguarded(l, r) == TRUE

\* the match arm for two Lists: taken when the lengths agree
EqListArm(l, r) == Len(l) = Len(r)

\* an Object arm without its size guard
EqObjectArmUnguarded(l, r) == TRUE

\* a String arm without its guard
EqStringArmUnguarded(l, r) == TRUE

\* the guards `if l == r` of the arms for two Booleans, two Numbers and two
\* Strings (lines 77-79): bool, FiniteF64 (the derived ==, that of f64) and
\* String compared by payload
EqBooleanArm(l, r) == l = r
EqNumberArm(l, r) == FEq(l, r)
EqStringArm(l, r) == l = r

\* the match arm for two Objects: taken when the sizes agree
EqObjectArm(l, r) == Cardinality(DOMAIN l) = Cardinality(DOMAIN r)

\* One iteration of `while let (Some(lhs), Some(rhs)) = (lhs_stack.pop(),
\* rhs_stack.pop())` (lines 62-83); result becomes "true" when the loop ends
\* and "false" at a `return false`; keys is the order in which `for (key,
\* val1) in l` yields the entries of l.
EqStep(st, keys) ==
    LET nl   == Len(st.lhs_stack)
        nr   == Len(st.rhs_stack)
        lhs  == st.lhs_stack[nl]
        rhs  == st.rhs_stack[nr]
        lrest == SubSeq(st.lhs_stack, 1, nl - 1)
        rrest == SubSeq(st.rhs_stack, 1, nr - 1)
        popped == [st EXCEPT !.lhs_stack = lrest, !.rhs_stack = rrest]
    IN  IF nl = 0 \/ nr = 0
        THEN [st EXCEPT !.lhs_stack = SubSeq(st.lhs_stack, 1, Max(nl - 1, 0)),
                        !.rhs_stack = SubSeq(st.rhs_stack, 1, Max(nr - 1, 0)),
                        !.result = "true"]
        ELSE IF lhs.t = "List" /\ rhs.t = "List" /\ EqListArm(lhs.l, rhs.l)
        THEN [st EXCEPT !.lhs_stack = lrest \o lhs.l, !.rhs_stack = rrest \o rhs.l]
        ELSE IF lhs.t = "Object" /\ rhs.t = "Object" /\ EqObjectArm(lhs.o, rhs.o)
        THEN IF \E k \in DOMAIN lhs.o : k \notin DOMAIN rhs.o
             THEN [popped EXCEPT !.result = "false"]
             ELSE [st EXCEPT !.lhs_stack = lrest \o [j \in 1..Len(keys) |-> lhs.o[keys[j]]],
                             !.rhs_stack = rrest \o [j \in 1..Len(keys) |-> rhs.o[keys[j]]]]
        ELSE IF lhs.t = "Boolean" /\ rhs.t = "Boolean" /\ EqBooleanArm(lhs.b, rhs.b) THEN popped
        ELSE IF lhs.t = "Number" /\ rhs.t = "Number" /\ EqNumberArm(lhs.n, rhs.n) THEN popped
        ELSE IF lhs.t = "String" /\ rhs.t = "String" /\ EqStringArm(lhs.s, rhs.s) THEN popped
        ELSE IF lhs.t = "Null" /\ rhs.t = "Null" THEN popped
        ELSE [popped EXCEPT !.result = "false"]

\* the orders the iteration of the next step may take: those of the entries
\* of lhs when it is an Object
EqChoices(st) ==
    IF st.lhs_stack # <<>> /\ st.lhs_stack[Len(st.lhs_stack)].t = "Object"
    THEN IterOrders(DOMAIN st.lhs_stack[Len(st.lhs_stack)].o)
    ELSE {<<>>}

\* the states eq can return in, one for every order the maps may be iterated in
RECURSIVE EqRun(_)
EqRun(st) ==
    IF st.result # "run" THEN {st}
    ELSE UNION {EqRun(EqStep(st, keys)) : keys \in EqChoices(st)}

\* lhs == rhs: what the call can return
Eq(lhs, rhs) == {st.result = "true" : st \in EqRun(EqInit(lhs, rhs))}

\* self.serialize(f, pretty) run to its end: the states it can end in, one for
\* every order in which the map iterators may yield their entries
RECURSIVE SerRun(_, _, _)
SerRun(self, pretty, st) ==
    IF st.done THEN {st}
    ELSE UNION {SerRun(self, pretty, SerStep(self, pretty, st, key)) : key \in SerChoices(st)}

\* self.to_string(): the texts it can return
to_string(self) == {st.out : st \in SerRun(self, FALSE, SerInit)}

\* Clone::clone: self.to_string().parse().unwrap(), for every text to_string
\* can return; status "err" is the panic of unwrap
Clone(self) == {Parse(text) : text \in to_string(self)}

\* `val as f64` for a u32 or an i32: exact
FFromInt(n) == IF n < 0 THEN FNeg(FFromNat(-n)) ELSE FFromNat(n)

\* From<u32> and From<i32>: FiniteF64::try_from(val as f64).map(JsonValue::from).unwrap()
JsonFromInt(n) ==
    LET r == FiniteTryFrom(FFromInt(n))
    IN  IF r.ok THEN [ok |-> TRUE, val |-> JsonFromFinite(r.val)] ELSE [ok |-> FALSE, val |-> Null]

\* Index<usize>: &(<&Vec<_>>::try_from(self).unwrap())[idx]; the unwrap panics
\* on a value that is no List, the slice index on idx >= len.  ok is FALSE for
\* a panic, out is the element the returned reference points to.
IndexUsize(self, idx) ==
    IF self.t # "List" THEN [ok |-> FALSE, out |-> Null]
    ELSE IF idx >= Len(self.l) THEN [ok |-> FALSE, out |-> Null]
    ELSE [ok |-> TRUE, out |-> self.l[idx + 1]]

\* Index<&str>: &(<&HashMap<_, _>>::try_from(self).unwrap())[key]; the unwrap
\* panics on a value that is no Object, the map index on an absent key
IndexStr(self, key) ==
    IF self.t # "Object" THEN [ok |-> FALSE, out |-> Null]
    ELSE IF key \notin DOMAIN self.o THEN [ok |-> FALSE, out |-> Null]
    ELSE [ok |-> TRUE, out |-> self.o[key]]

\* an index_mut that resets the entry of a present key
IndexMutKeyReset(self, key) ==
    IF self.t # "Object" THEN [ok |-> FALSE, val |-> self]
    ELSE [ok |-> TRUE, val |-> Object(MapInsert(self.o, key, Null))]

\* IndexMut<&str>: inner.entry(key.into()).or_insert(JsonValue::Null); the
\* unwrap of try_into panics on a value that is no Object
IndexMutKey(self, key) ==
    IF self.t # "Object" THEN [ok |-> FALSE, val |-> self]
    ELSE IF key \in DOMAIN self.o THEN [ok |-> TRUE, val |-> self]
    ELSE [ok |-> TRUE, val |-> Object(MapInsert(self.o, key, Null))]

(***************************************************************************)
(* Teardown (Drop::drop).  A frame is one native activation of drop for    *)
(* one value: `self` is the value being torn down, `stack` is the local    *)
(* Vec the loop works on, pc is the position in the activation.  The       *)
(* sequence of frames is the native call stack.                            *)
(***************************************************************************)
IsContainer(v) == v.t \in {"List", "Object"}

\* what stack.extend receives from take(lst) or take(obj).into_values(): the
\* elements of a List in their order, the values of an Object in the order
\* keys in which the map yields them
Taken(v, keys) ==
    IF v.t = "List" THEN v.l
    ELSE IF v.t = "Object" THEN [j \in 1..Len(keys) |-> v.o[keys[j]]]
    ELSE <<>>

\* the values a container owns directly, listed for counting and measuring:
\* those of an Object in an order that is of no account
Children(v) ==
    IF v.t = "Object" THEN Taken(v, CHOOSE keys \in IterOrders(DOMAIN v.o) : TRUE)
    ELSE Taken(v, <<>>)

\* a take that leaves the children where they are
EmptiedNot(v) == v

\* the container left behind by take(lst) / take(obj)
Emptied(v) == IF v.t = "List" THEN List(<<>>) ELSE IF v.t = "Object" THEN Object(EmptyMap) ELSE v

\* a container without its first child: what the compiler's field-by-field
\* teardown still has to visit after releasing one element, keys being the
\* order in which it visits the entries of an Object
WithoutFirst(v, keys) ==
    IF v.t = "List" THEN List(SubSeq(v.l, 2, Len(v.l)))
    ELSE Object([kk \in (DOMAIN v.o) \ {keys[1]} |-> v.o[kk]])

\* `taken` records that replace(self, Null) has moved the value out of self
DropFrame(v) == [self |-> v, stack |-> <<>>, pc |-> "entry", taken |-> FALSE]

\* a drop that leaves every value to the field-by-field teardown
DropTakesNothing(self) == FALSE

\* matches!(self, JsonValue::List(_) | JsonValue::Object(_))
DropTakes(self) == IsContainer(self)

\* forget(last) is reached for the containers; a scalar leaves the iteration
\* by `continue` and is released as `last` goes out of scope
DropForgets(last) == IsContainer(last)

\* One step of the teardown of the value of the innermost frame.
\* `released` collects the values whose storage has been given back; keys is
\* the order in which the entries of the Object at hand are visited.
DropStep(d, keys) ==
    LET n    == Len(d.frames)
        top  == d.frames[n]
        rest == SubSeq(d.frames, 1, n - 1)
        m    == Len(top.stack)
        last == top.stack[m]
    IN  IF top.pc = "entry"
        THEN IF DropTakes(top.self)
             THEN [d EXCEPT !.frames = rest \o
                       <<[self |-> Null, stack |-> <<top.self>>, pc |-> "loop", taken |-> TRUE]>>]
             ELSE [d EXCEPT !.frames = rest \o <<[top EXCEPT !.pc = "glue"]>>]
        ELSE IF top.pc = "loop"
        THEN IF m = 0
             THEN [d EXCEPT !.frames = rest \o <<[top EXCEPT !.pc = "glue"]>>]
             ELSE LET popped == [top EXCEPT !.stack = SubSeq(top.stack, 1, m - 1)]
                      moved  == [top EXCEPT !.stack = SubSeq(top.stack, 1, m - 1) \o Taken(last, keys)]
                  IN  IF DropForgets(last)
                      THEN [d EXCEPT !.frames = rest \o <<moved>>,
                                     !.released = d.released \o <<Emptied(last)>>]
                      ELSE [d EXCEPT !.frames = rest \o <<popped, DropFrame(last)>>]
        ELSE \* "glue": drop has returned; the fields of self are released
             IF IsContainer(top.self) /\ Children(top.self) # <<>>
             THEN [d EXCEPT !.frames = rest \o <<[top EXCEPT !.self = WithoutFirst(top.self, keys)]>>
                                            \o <<DropFrame(Taken(top.self, keys)[1])>>]
             ELSE [d EXCEPT !.frames = rest,
                            !.released = IF top.taken THEN d.released
                                         ELSE d.released \o <<top.self>>]

\* the orders the next step may visit the entries of an Object in: of the one
\* popped in the loop, of self once drop has returned
DropChoices(d) ==
    LET top == d.frames[Len(d.frames)]
        at  == IF top.pc = "loop" /\ top.stack # <<>> THEN top.stack[Len(top.stack)] ELSE top.self
    IN  IF d.frames # <<>> /\ top.pc # "entry" /\ at.t = "Object"
        THEN IterOrders(DOMAIN at.o)
        ELSE {<<>>}

DropInit(v) == [root |-> v, frames |-> <<DropFrame(v)>>, released |-> <<>>]

(***************************************************************************)
(* The native call stack under from_str, serialize and eq.  Each of them   *)
(* is one activation that loops over Vecs of its own; none of the three    *)
(* contains a call of from_str, of serialize or of eq.  serialize and eq   *)
(* borrow their operands and release nothing.  from_str owns the values it *)
(* builds, and where it lets go of one, drop is called on it below the     *)
(* activation of from_str.  The frames listed are those of the four        *)
(* traversals; the conversion From<f64>, which from_str calls and which    *)
(* drops its default, returns before the loop goes on and has no frame of  *)
(* its own here.                                                           *)
(***************************************************************************)
\* the activation of from_str, of serialize or of eq; pending lists the
\* values the activation lets go of at the point it has reached, first the
\* one released first
CallFrame(fn) == [pc |-> fn, pending |-> <<>>]

\* a frame is an activation of drop
IsDropFrame(f) == f.pc \in {"entry", "loop", "glue"}

\* the value `next` of an iteration of the parser's loop that leaves no
\* container open: ps are the locals before the iteration and ps2 those after
\* it.  It is what line 531 would return if the input ended where the
\* iteration stopped reading; <<>> when the iteration finished no value.
ParseNext(ps, ps2) ==
    LET at_end == ParseStep([ps EXCEPT !.input = SubSeq(ps.input, 1, ps2.i)])
    IN  IF at_end.status = "ok" THEN <<at_end.val>> ELSE <<>>

\* The default that From<f64> (line 120) builds for map_or and lets go of
\* when the number is finite: <<Null>> for an iteration that takes the number
\* arm and converts a finite number (line 504), <<>> for any other.
ParseDefault(ps) ==
    LET c   == Get(ps.input, ps.i)
        num == ScanNumber(ps.input, ps.i)
    IN  IF /\ c = Minus \/ IsDigit(c)
           /\ ps.expect \in {"Value", "ValueOrBracket"}
           /\ num.ok
           /\ FiniteTryFrom(num.num).ok
        THEN <<Null>>
        ELSE <<>>

\* The values one iteration of the parser's loop lets go of, in the order in
\* which it does, ps being the locals before it and ps2 those after it:
\*   - the default of From<f64> when a finite number was read;
\*   - `stack`, the Vec of the containers under construction, when the
\*     function is left by `?` or by the panic of unwrap;
\*   - the value that obj.insert (line 527) returns for a key that the
\*     Object on top of the stack has already;
\*   - `next` when line 532 (`_ => {}`) leaves it where it is.
\* A value that is returned or moved into a container is not let go of.
ParseReleases(ps, ps2) ==
    LET n2  == Len(ps2.stack)
        key == ps.key_stack[Len(ps.key_stack)]
    IN  ParseDefault(ps) \o
        (IF ps2.status \in {"err", "panic"} THEN ps2.stack
         ELSE IF Len(ps2.key_stack) < Len(ps.key_stack)
         THEN IF key \in DOMAIN ps.stack[n2].o THEN <<ps.stack[n2].o[key]>> ELSE <<>>
         ELSE IF ps2.status = "run" /\ n2 = 0
         THEN ParseNext(ps, ps2)
         ELSE <<>>)

\* the activation on top of the call stack
TopFrame(d) == d.frames[Len(d.frames)]

\* the call stack with the activation on top replaced
WithTop(d, f) == [d EXCEPT !.frames = SubSeq(d.frames, 1, Len(d.frames) - 1) \o <<f>>]

\* drop is called on the first value the activation on top has to let go of
CallDrop(d) ==
    LET top == TopFrame(d)
    IN  [d EXCEPT !.frames = SubSeq(d.frames, 1, Len(d.frames) - 1)
                               \o <<[top EXCEPT !.pending = Tail(top.pending)]>>
                               \o <<DropFrame(Head(top.pending))>>]

(***************************************************************************)
(* The values and the inputs the operations are run on.                    *)
(***************************************************************************)
\* the nodes of a value
RECURSIVE Nodes(_)
RECURSIVE NodesOfSeq(_)
NodesOfSeq(l) == IF l = <<>> THEN 0 ELSE Nodes(l[1]) + NodesOfSeq(Tail(l))
Nodes(v) == 1 + NodesOfSeq(Children(v))

\* the nesting depth of a value: 1 for a scalar or an empty container
RECURSIVE Depth(_)
RECURSIVE DepthOfSeq(_)
DepthOfSeq(l) == IF l = <<>> THEN 0 ELSE Max(Depth(l[1]), DepthOfSeq(Tail(l)))
Depth(v) == 1 + DepthOfSeq(Children(v))

\* every number inside a value is finite
RECURSIVE AllFinite(_)
AllFinite(v) ==
    IF v.t = "Number" THEN FIsFinite(v.n)
    ELSE \A j \in 1..Len(Children(v)) : AllFinite(Children(v)[j])

(***************************************************************************)
(* The JSON grammar of RFC 8259, by recursive descent: what a text denotes *)
(* independently of the parser above.  Used only to state properties.      *)
(***************************************************************************)
RECURSIVE RefWs(_, _)
RefWs(bytes, i) == IF IsWs(Get(bytes, i)) THEN RefWs(bytes, i + 1) ELSE i

RefFail(i) == [ok |-> FALSE, i |-> i, val |-> Null]

\* digits from i on: the index after the last one
RECURSIVE RefDigits(_, _)
RefDigits(bytes, i) == IF IsDigit(Get(bytes, i)) THEN RefDigits(bytes, i + 1) ELSE i

\* number = [ minus ] int [ frac ] [ exp ]: the index after the token, -1 if none
RefNumberEnd(bytes, i) ==
    LET a    == IF Get(bytes, i) = Minus THEN i + 1 ELSE i
        b    == IF Get(bytes, a) = Digit0 THEN a + 1 ELSE RefDigits(bytes, a)
        fr   == IF Get(bytes, b) = Dot THEN RefDigits(bytes, b + 1) ELSE b
        c    == IF fr = b + 1 THEN -1 ELSE fr
        sg   == IF Get(bytes, c + 1) \in {Plus, Minus} THEN c + 2 ELSE c + 1
        ex   == IF Get(bytes, c) \in {LowerE, UpperE} THEN RefDigits(bytes, sg) ELSE c
    IN  IF b = a \/ c < 0 THEN -1
        ELSE IF ex # c /\ ex = sg THEN -1
        ELSE IF ex = c /\ Get(bytes, c) \in {LowerE, UpperE} THEN -1
        ELSE ex

\* four hexadecimal digits at i: the code unit, -1 if they are not there
RefHex4(bytes, i) ==
    LET d == [j \in 0..3 |-> HexDigit(Get(bytes, i + j))]
    IN  IF \A j \in 0..3 : d[j] >= 0
        THEN ((d[0] * 16 + d[1]) * 16 + d[2]) * 16 + d[3] ELSE -1

RefSimpleEscape(c) ==
    IF c = LowerB THEN Bs ELSE IF c = LowerF THEN Ff
    ELSE IF c = LowerN THEN Lf ELSE IF c = LowerR THEN Cr
    ELSE IF c = LowerT THEN Tab
    ELSE IF c \in {Quote, Backslash, Slash} THEN c ELSE -1

\* the characters of a string literal from i on (after the opening quote);
\* any byte from 0x20 up except '"' and '\' stands for itself
RECURSIVE RefChars(_, _, _)
RefChars(bytes, i, acc) ==
    LET c  == Get(bytes, i)
        e  == Get(bytes, i + 1)
        u1 == RefHex4(bytes, i + 2)
        u2 == IF Get(bytes, i + 6) = Backslash /\ Get(bytes, i + 7) = LowerU
              THEN RefHex4(bytes, i + 8) ELSE -1
    IN  IF c < 32 THEN RefFail(i)
        ELSE IF c = Quote THEN [ok |-> TRUE, i |-> i + 1, val |-> String(acc)]
        ELSE IF c # Backslash THEN RefChars(bytes, i + 1, acc \o <<c>>)
        ELSE IF e = LowerU
        THEN IF u1 < 0 THEN RefFail(i)
             ELSE IF u1 >= 55296 /\ u1 <= 56319 /\ u2 >= 56320 /\ u2 <= 57343
             THEN RefChars(bytes, i + 12,
                      acc \o Utf8(65536 + (u1 - 55296) * 1024 + (u2 - 56320)))
             ELSE IF u1 >= 55296 /\ u1 <= 57343
             THEN RefChars(bytes, i + 6, acc \o Utf8(65533))
             ELSE RefChars(bytes, i + 6, acc \o Utf8(u1))
        ELSE IF RefSimpleEscape(e) < 0 THEN RefFail(i)
        ELSE RefChars(bytes, i + 2, acc \o <<RefSimpleEscape(e)>>)

\* value = false / null / true / object / array / number / string, read at i:
\* [ok, i, val] with i the index after the value
RECURSIVE RefValue(_, _)
RECURSIVE RefElements(_, _, _)
RECURSIVE RefMembers(_, _, _)
RefValue(bytes, i) ==
    LET c   == Get(bytes, i)
        ne  == RefNumberEnd(bytes, i)
        j   == RefWs(bytes, i + 1)
    IN  IF c = LBracket
        THEN IF Get(bytes, j) = RBracket THEN [ok |-> TRUE, i |-> j + 1, val |-> List(<<>>)]
             ELSE RefElements(bytes, j, <<>>)
        ELSE IF c = LBrace
        THEN IF Get(bytes, j) = RBrace THEN [ok |-> TRUE, i |-> j + 1, val |-> Object(EmptyMap)]
             ELSE RefMembers(bytes, j, EmptyMap)
        ELSE IF c = Quote THEN RefChars(bytes, i + 1, <<>>)
        ELSE IF SliceIs(bytes, i, i + 4, KwNull)
        THEN [ok |-> TRUE, i |-> i + 4, val |-> Null]
        ELSE IF SliceIs(bytes, i, i + 4, KwTrue)
        THEN [ok |-> TRUE, i |-> i + 4, val |-> Boolean(TRUE)]
        ELSE IF SliceIs(bytes, i, i + 5, KwFalse)
        THEN [ok |-> TRUE, i |-> i + 5, val |-> Boolean(FALSE)]
        ELSE IF ne >= 0
        THEN [ok |-> TRUE, i |-> ne,
              val |-> JsonFromF64(ScanNumber(SubSeq(bytes, i + 1, ne), 0).num)]
        ELSE RefFail(i)

\* value *( ws "," ws value ) ws "]" from i on
RefElements(bytes, i, acc) ==
    LET v == RefValue(bytes, i)
        j == RefWs(bytes, v.i)
        c == Get(bytes, j)
    IN  IF ~v.ok THEN RefFail(v.i)
        ELSE IF c = RBracket THEN [ok |-> TRUE, i |-> j + 1, val |-> List(acc \o <<v.val>>)]
        ELSE IF c = Comma THEN RefElements(bytes, RefWs(bytes, j + 1), acc \o <<v.val>>)
        ELSE RefFail(j)

\* member *( ws "," ws member ) ws "}" from i on, member = string ws ":" ws value;
\* of two members with one name the later one stays
RefMembers(bytes, i, acc) ==
    LET k  == IF Get(bytes, i) = Quote THEN RefChars(bytes, i + 1, <<>>) ELSE RefFail(i)
        jc == RefWs(bytes, k.i)
        v  == RefValue(bytes, RefWs(bytes, jc + 1))
        j  == RefWs(bytes, v.i)
        c  == Get(bytes, j)
        o  == MapInsert(acc, k.val.s, v.val)
    IN  IF ~k.ok THEN RefFail(k.i)
        ELSE IF Get(bytes, jc) # Colon THEN RefFail(jc)
        ELSE IF ~v.ok THEN RefFail(v.i)
        ELSE IF c = RBrace THEN [ok |-> TRUE, i |-> j + 1, val |-> Object(o)]
        ELSE IF c = Comma THEN RefMembers(bytes, RefWs(bytes, j + 1), o)
        ELSE RefFail(j)

\* a JSON text with no whitespace before or after its value
RefParse(bytes) ==
    LET r == RefValue(bytes, 0)
    IN  [ok |-> r.ok /\ r.i = Len(bytes), val |-> r.val]

\* structural equality of two values, by recursion on their shape
RECURSIVE RefEq(_, _)
RefEq(a, b) ==
    IF a.t # b.t THEN FALSE
    ELSE IF a.t = "Null" THEN TRUE
    ELSE IF a.t = "Boolean" THEN a.b = b.b
    ELSE IF a.t = "Number" THEN FEq(a.n, b.n)
    ELSE IF a.t = "String" THEN a.s = b.s
    ELSE IF a.t = "List"
    THEN Len(a.l) = Len(b.l) /\ \A j \in 1..Len(a.l) : RefEq(a.l[j], b.l[j])
    ELSE DOMAIN a.o = DOMAIN b.o /\ \A k \in DOMAIN a.o : RefEq(a.o[k], b.o[k])

(***************************************************************************)
(* Bounds, and the inputs and values drawn within them.                    *)
(***************************************************************************)
\* the longest input text, in tokens
MaxToks == 4
\* the largest value handed to the serializer and to drop, in nodes
MaxNodes == 3
\* the largest value on either side of ==, in nodes
EqNodes == 3
\* how many times a built value is wrapped into a container
MaxWrap == 1
\* how often test_massive_object repeats each piece of its text
MaxDeep == 3

\* the pieces the input texts are made of
Tokens ==
    { Str(<<"[">>), Str(<<"]">>), Str(<<"{">>), Str(<<"}">>), Str(<<",">>), Str(<<":">>),
      Str(<<" ">>), Str(<<"1">>), Str(<<"n", "u", "l", "l">>), Str(<<"\"">>),
      Str(<<"\"", "a", "\"">>), Str(<<"\"", "a", "\"", " ", ":">>),
      Str(<<"\"", "DEL", "\"">>) }

\* the text a sequence of tokens spells
RECURSIVE Concat(_)
Concat(ts) == IF ts = <<>> THEN <<>> ELSE ts[1] \o Concat(Tail(ts))

\* 0.12 and 1.0 as f64 literals
F012 == FDec(FALSE, BFromNat(12), -2)
F1 == FFromNat(1)

Leaves ==
    { Null, Boolean(TRUE), Number(F1), Number(F012), String(Str(<<"a">>)),
      String(<<Ascii["\""], Ascii["\\"], Ascii["LF"], Ascii["DEL"], 195, 169>>) }

\* the scalars on either side of ==: two of each variant that carries a
\* payload, and the two zeros, which are equal as f64
EqLeaves ==
    { Null, Boolean(TRUE), Boolean(FALSE),
      Number(FZero(FALSE)), Number(FZero(TRUE)), Number(F1),
      String(Str(<<"a">>)), String(Str(<<"b">>)) }

Keys == << Str(<<"a">>), <<Ascii["\""], Ascii["LF"]>> >>

\* the values of exactly n nodes over the given scalars
RECURSIVE ValuesOfSize(_, _)
RECURSIVE SeqsOfSize(_, _)
RECURSIVE MapsOfSize(_, _, _)
SeqsOfSize(leaves, m) ==
    IF m = 0 THEN {<<>>}
    ELSE UNION {{<<x>> \o r : x \in ValuesOfSize(leaves, k), r \in SeqsOfSize(leaves, m - k)}
                : k \in 1..m}
\* the maps of m nodes in all whose keys are among Keys[j..]
MapsOfSize(leaves, m, j) ==
    IF m = 0 THEN {EmptyMap}
    ELSE IF j > Len(Keys) THEN {}
    ELSE MapsOfSize(leaves, m, j + 1) \cup
         UNION {{MapInsert(r, Keys[j], x) : x \in ValuesOfSize(leaves, k),
                                            r \in MapsOfSize(leaves, m - k, j + 1)}
                : k \in 1..m}
ValuesOfSize(leaves, n) ==
    IF n = 1 THEN leaves \cup {List(<<>>), Object(EmptyMap)}
    ELSE {List(l) : l \in SeqsOfSize(leaves, n - 1)}
         \cup {Object(o) : o \in MapsOfSize(leaves, n - 1, 1)}

\* the f64, u32 and i32 arguments handed to the conversions
FloatInputs ==
    { FZero(FALSE), FZero(TRUE), F1, FNeg(FDec(FALSE, BFromNat(25), -1)),
      FInf(FALSE), FInf(TRUE), FNaN }
U32Inputs == {0, 7, 2147483647}
I32Inputs == {-2147483647, -1, 3}

\* number texts, some past the range of f64
NumberTexts ==
    { Str(<<"1">>), Str(<<"-", "2", ".", "5">>), Str(<<"1", "e", "9", "9", "9">>),
      Str(<<"-", "1", "e", "9", "9", "9">>), Str(<<"0", "e", "9", "9", "9">>),
      Str(<<"1", "e", "-", "9", "9", "9">>) }

\* what parse returns for each of them
ParsedNumbers == {Parse(t) : t \in NumberTexts}

Values == UNION {ValuesOfSize(Leaves, n) : n \in 1..MaxNodes}
EqValues == UNION {ValuesOfSize(EqLeaves, n) : n \in 1..EqNodes}

\* a text, the text cut short, and the text followed by a blank
TextsAbout(t) == {t, t \o <<Space>>} \cup {SubSeq(t, 1, n) : n \in 1..(Len(t) - 1)}

\* texts about the value v: those about what to_string writes for it and, for
\* an Object, that text with one of its keys given a second time
DeepInputs(v) ==
    UNION {TextsAbout(t)
           \cup (IF v.t # "Object" THEN {}
                 ELSE UNION {{SubSeq(t, 1, Len(t) - 1) \o <<Comma>> \o Tail(u)
                              : u \in to_string(Object(MapInsert(EmptyMap, k, Null)))}
                             : k \in DOMAIN v.o})
           : t \in to_string(v)}

\* the text of test_massive_object (tests.rs:584-587) with n for its 100000
\* and a shorter key: n Objects in one another around n Lists in one another
MassiveText(n) ==
    Concat([j \in 1..n |-> Str(<<"{", "\"", "a", "\"", ":", " ">>)])
    \o [j \in 1..n |-> LBracket] \o [j \in 1..n |-> RBracket] \o [j \in 1..n |-> RBrace]

(***************************************************************************)
(* The state machine.  Each operation of the library runs on locals of its *)
(* own; one variable holds the locals of one operation:                    *)
(*   p   the parser's (from_str),                                          *)
(*   rt  a value, the serializer's locals and the text parsed back         *)
(*       (to_string / Debug, then parse: clone),                           *)
(*   e   the two operands and the work lists of ==,                        *)
(*   d   the native call stack: the frames of a teardown, under the        *)
(*       frame of the operation that caused it if there is one,            *)
(*   b   a value under construction by the conversions and by indexing,    *)
(*   ix  a value, one indexing expression on it and what came of it.       *)
(***************************************************************************)
VARIABLES p, rt, e, d, b, ix

vars == <<p, rt, e, d, b, ix>>

NoParse == [status |-> "none"]
IdleP  == ParseInit(<<>>)
IdleRt == [v |-> Null, v0 |-> Null, pretty |-> FALSE, ser |-> SerInit, back |-> NoParse, mutated |-> FALSE]
IdleE  == [a |-> Null, b |-> Null, st |-> EqInit(Null, Null)]
IdleD  == [root |-> Null, frames |-> <<>>, released |-> <<>>]
IdleB  == [val |-> Null, fin |-> [ok |-> FALSE, val |-> FNaN], op |-> "none", arg |-> FNaN, wraps |-> 0]
IdleIx == [v0 |-> Null, v |-> Null, op |-> "none", idx |-> 0, key |-> <<>>, ok |-> TRUE, out |-> Null]

---------------------------------------------------------------------------
\* input.parse::<JsonValue>(), one loop iteration at a time
Init ==
    /\ \E n \in 0..MaxToks :
           \E ts \in [1..n -> Tokens] : p = ParseInit(Concat(ts))
    /\ rt = IdleRt /\ e = IdleE /\ d = IdleD /\ b = IdleB /\ ix = IdleIx

ParseLoop ==
    /\ p.status = "run"
    /\ p' = ParseStep(p)
    /\ UNCHANGED <<rt, e, d, b, ix>>

Next == ParseLoop

Spec == Init /\ [][Next]_vars

---------------------------------------------------------------------------
\* format!("{}", v) or format!("{:?}", v), the text parsed back, and a write
\* through an index into the parsed copy
InitRoundTrip ==
    /\ rt \in {[IdleRt EXCEPT !.v = v, !.v0 = v, !.pretty = pretty] :
                  v \in Values, pretty \in BOOLEAN}
    /\ p = IdleP /\ e = IdleE /\ d = IdleD /\ b = IdleB /\ ix = IdleIx

Serialize ==
    /\ ~rt.ser.done
    /\ \E key \in SerChoices(rt.ser) :
           rt' = [rt EXCEPT !.ser = SerStep(rt.v, rt.pretty, rt.ser, key)]
    /\ UNCHANGED <<p, e, d, b, ix>>

ParseBack ==
    /\ rt.ser.done
    /\ rt.back = NoParse
    /\ rt' = [rt EXCEPT !.back = Parse(rt.ser.out)]
    /\ UNCHANGED <<p, e, d, b, ix>>

\* copy[key] = JsonValue::Null on the copy that clone returned
MutateCopy ==
    /\ rt.back # NoParse
    /\ rt.back.status = "ok"
    /\ ~rt.pretty
    /\ ~rt.mutated
    /\ rt.back.val.t = "Object"
    /\ \E j \in 1..Len(Keys) :
           rt' = [rt EXCEPT !.back.val = Object(MapInsert(IndexMutKey(rt.back.val, Keys[j]).val.o,
                                                          Keys[j], Null)),
                            !.mutated = TRUE]
    /\ UNCHANGED <<p, e, d, b, ix>>

NextRoundTrip == Serialize \/ ParseBack \/ MutateCopy

SpecRoundTrip == InitRoundTrip /\ [][NextRoundTrip]_vars

---------------------------------------------------------------------------
\* a == b, one loop iteration at a time
InitEq ==
    /\ \E x \in EqValues, y \in EqValues : e = [a |-> x, b |-> y, st |-> EqInit(x, y)]
    /\ p = IdleP /\ rt = IdleRt /\ d = IdleD /\ b = IdleB /\ ix = IdleIx

EqLoop ==
    /\ e.st.result = "run"
    /\ \E keys \in EqChoices(e.st) : e' = [e EXCEPT !.st = EqStep(e.st, keys)]
    /\ UNCHANGED <<p, rt, d, b, ix>>

NextEq == EqLoop

SpecEq == InitEq /\ [][NextEq]_vars

---------------------------------------------------------------------------
\* drop(v), one step of the innermost activation at a time
InitDrop ==
    /\ d \in {DropInit(v) : v \in Values}
    /\ p = IdleP /\ rt = IdleRt /\ e = IdleE /\ b = IdleB /\ ix = IdleIx

DropLoop ==
    /\ d.frames # <<>>
    /\ \E keys \in DropChoices(d) : d' = DropStep(d, keys)
    /\ UNCHANGED <<p, rt, e, b, ix>>

NextDrop == DropLoop

SpecDrop == InitDrop /\ [][NextDrop]_vars

\* drop is sequential code that runs until it returns
SpecDropFair == SpecDrop /\ WF_vars(NextDrop)

---------------------------------------------------------------------------
\* let json: JsonValue = input.parse()?; json.to_string(); json == json;
\* drop(json): the four traversals one after the other on one value, d.frames
\* being the native call stack of the program.  The inputs are texts about
\* the values of up to MaxNodes nodes and the text of test_massive_object.
InitDeep ==
    /\ \/ \E v \in Values : \E t \in DeepInputs(v) : p = ParseInit(t)
       \/ \E n \in 1..MaxDeep : \E t \in TextsAbout(MassiveText(n)) : p = ParseInit(t)
    /\ d = [root |-> Null, frames |-> <<CallFrame("from_str")>>, released |-> <<>>]
    /\ rt = IdleRt /\ e = IdleE /\ b = IdleB /\ ix = IdleIx

\* one iteration of the parser's loop
DeepParse ==
    /\ d.frames # <<>>
    /\ TopFrame(d).pc = "from_str"
    /\ TopFrame(d).pending = <<>>
    /\ p.status = "run"
    /\ \E ps2 \in {ParseStep(p)} :
           /\ p' = ps2
           /\ d' = WithTop(d, [TopFrame(d) EXCEPT !.pending = ParseReleases(p, ps2)])
    /\ UNCHANGED <<rt, e, b, ix>>

\* the parser lets go of a value: drop is called on it
DeepRelease ==
    /\ d.frames # <<>>
    /\ TopFrame(d).pc = "from_str"
    /\ TopFrame(d).pending # <<>>
    /\ d' = CallDrop(d)
    /\ UNCHANGED <<p, rt, e, b, ix>>

\* from_str returns; on Ok the program calls to_string
DeepParsed ==
    /\ d.frames # <<>>
    /\ TopFrame(d).pc = "from_str"
    /\ TopFrame(d).pending = <<>>
    /\ p.status # "run"
    /\ IF p.status = "ok"
       THEN /\ d' = [d EXCEPT !.frames = <<CallFrame("serialize")>>]
            /\ rt' = [IdleRt EXCEPT !.v = p.val, !.v0 = p.val]
       ELSE /\ d' = [d EXCEPT !.frames = <<>>]
            /\ rt' = rt
    /\ UNCHANGED <<p, e, b, ix>>

\* one iteration of the serializer's loop
DeepSerialize ==
    /\ d.frames # <<>>
    /\ TopFrame(d).pc = "serialize"
    /\ ~rt.ser.done
    /\ \E key \in SerChoices(rt.ser) :
           rt' = [rt EXCEPT !.ser = SerStep(rt.v, rt.pretty, rt.ser, key)]
    /\ UNCHANGED <<p, e, d, b, ix>>

\* serialize returns; the program calls eq
DeepSerialized ==
    /\ d.frames # <<>>
    /\ TopFrame(d).pc = "serialize"
    /\ rt.ser.done
    /\ d' = [d EXCEPT !.frames = <<CallFrame("eq")>>]
    /\ e' = [a |-> p.val, b |-> p.val, st |-> EqInit(p.val, p.val)]
    /\ UNCHANGED <<p, rt, b, ix>>

\* one iteration of the loop of eq
DeepEq ==
    /\ d.frames # <<>>
    /\ TopFrame(d).pc = "eq"
    /\ e.st.result = "run"
    /\ \E keys \in EqChoices(e.st) : e' = [e EXCEPT !.st = EqStep(e.st, keys)]
    /\ UNCHANGED <<p, rt, d, b, ix>>

\* eq returns; the program drops the value
DeepCompared ==
    /\ d.frames # <<>>
    /\ TopFrame(d).pc = "eq"
    /\ e.st.result # "run"
    /\ d' = [d EXCEPT !.root = p.val, !.frames = <<DropFrame(p.val)>>]
    /\ UNCHANGED <<p, rt, e, b, ix>>

\* one step of the innermost activation of drop, under from_str or on its own
DeepDrop ==
    /\ d.frames # <<>>
    /\ IsDropFrame(TopFrame(d))
    /\ DropLoop

NextDeep ==
    \/ DeepParse \/ DeepRelease \/ DeepParsed
    \/ DeepSerialize \/ DeepSerialized
    \/ DeepEq \/ DeepCompared
    \/ DeepDrop

SpecDeep == InitDeep /\ [][NextDeep]_vars

---------------------------------------------------------------------------
\* a value built by the conversions, by parse, by clone and by writes
\* through an index; b holds the result of the last call: a JsonValue in val
\* or a Result<FiniteF64, _> in fin
InitBuild ==
    /\ b = IdleB
    /\ p = IdleP /\ rt = IdleRt /\ e = IdleE /\ d = IdleD /\ ix = IdleIx

BuildFromF64 ==
    /\ \E x \in FloatInputs :
           b' = [IdleB EXCEPT !.val = JsonFromF64(x), !.op = "f64", !.arg = x]
    /\ UNCHANGED <<p, rt, e, d, ix>>

BuildFromInt ==
    /\ \E n \in U32Inputs \cup I32Inputs :
           \E r \in {JsonFromInt(n)} :
               /\ r.ok
               /\ b' = [IdleB EXCEPT !.val = r.val, !.op = "int"]
    /\ UNCHANGED <<p, rt, e, d, ix>>

BuildTryFrom ==
    /\ \E x \in FloatInputs :
           b' = [IdleB EXCEPT !.fin = FiniteTryFrom(x), !.op = "try_from", !.arg = x]
    /\ UNCHANGED <<p, rt, e, d, ix>>

BuildFromFinite ==
    /\ b.fin.ok
    /\ b' = [IdleB EXCEPT !.val = JsonFromFinite(b.fin.val), !.op = "finite"]
    /\ UNCHANGED <<p, rt, e, d, ix>>

BuildParse ==
    /\ \E r \in ParsedNumbers :
           /\ r.status = "ok"
           /\ b' = [IdleB EXCEPT !.val = r.val, !.op = "parse"]
    /\ UNCHANGED <<p, rt, e, d, ix>>

BuildList ==
    /\ b.wraps < MaxWrap
    /\ b' = [IdleB EXCEPT !.val = List(<<b.val>>), !.op = "list", !.wraps = b.wraps + 1]
    /\ UNCHANGED <<p, rt, e, d, ix>>

BuildObject ==
    /\ b.wraps < MaxWrap
    /\ b' = [IdleB EXCEPT !.val = Object(MapInsert(EmptyMap, Keys[1], b.val)),
                          !.op = "object", !.wraps = b.wraps + 1]
    /\ UNCHANGED <<p, rt, e, d, ix>>

BuildClone ==
    /\ \E r \in Clone(b.val) :
           /\ r.status = "ok"
           /\ b' = [IdleB EXCEPT !.val = r.val, !.op = "clone", !.wraps = b.wraps]
    /\ UNCHANGED <<p, rt, e, d, ix>>

\* val[key] = JsonValue::from(x)
BuildIndexAssign ==
    /\ b.val.t = "Object"
    /\ \E j \in 1..Len(Keys), x \in FloatInputs :
           b' = [IdleB EXCEPT !.val = Object(MapInsert(IndexMutKey(b.val, Keys[j]).val.o,
                                                       Keys[j], JsonFromF64(x))),
                              !.op = "index", !.wraps = b.wraps]
    /\ UNCHANGED <<p, rt, e, d, ix>>

NextBuild ==
    \/ BuildFromF64 \/ BuildFromInt \/ BuildTryFrom \/ BuildFromFinite \/ BuildParse
    \/ BuildList \/ BuildObject \/ BuildClone \/ BuildIndexAssign

SpecBuild == InitBuild /\ [][NextBuild]_vars

---------------------------------------------------------------------------
\* parse of the text of one object whose members repeat keys
MaxMembers == 3

MemberKeys == {Str(<<"a">>), Str(<<"b">>)}
MemberLits == {Str(<<"1">>), KwNull}
Members == [key : MemberKeys, lit : MemberLits]

RECURSIVE MembersText(_, _)
MembersText(ms, j) ==
    IF j > Len(ms) THEN <<>>
    ELSE (IF j > 1 THEN <<Comma>> ELSE <<>>)
         \o <<Quote>> \o ms[j].key \o <<Quote, Colon>> \o ms[j].lit
         \o MembersText(ms, j + 1)

ObjectText(ms) == <<LBrace>> \o MembersText(ms, 1) \o <<RBrace>>

InitObject ==
    /\ \E n \in 0..MaxMembers :
           \E ms \in [1..n -> Members] : p = ParseInit(ObjectText(ms))
    /\ rt = IdleRt /\ e = IdleE /\ d = IdleD /\ b = IdleB /\ ix = IdleIx

SpecObject == InitObject /\ [][Next]_vars

---------------------------------------------------------------------------
\* one indexing expression on a value: v[idx], v[key] and &mut v[key]; ix.v0
\* is the value before, ix.v the value after, ix.ok is FALSE for a panic and
\* ix.out is the element the returned reference points to
InitIndex ==
    /\ ix \in {[IdleIx EXCEPT !.v0 = v, !.v = v] : v \in Values}
    /\ p = IdleP /\ rt = IdleRt /\ e = IdleE /\ d = IdleD /\ b = IdleB

IndexByPosition ==
    /\ ix.op = "none"
    /\ \E idx \in 0..MaxNodes :
           \E r \in {IndexUsize(ix.v, idx)} :
               ix' = [ix EXCEPT !.op = "index_usize", !.idx = idx, !.ok = r.ok, !.out = r.out]
    /\ UNCHANGED <<p, rt, e, d, b>>

IndexByKey ==
    /\ ix.op = "none"
    /\ \E j \in 1..Len(Keys) :
           \E r \in {IndexStr(ix.v, Keys[j])} :
               ix' = [ix EXCEPT !.op = "index_str", !.key = Keys[j], !.ok = r.ok, !.out = r.out]
    /\ UNCHANGED <<p, rt, e, d, b>>

IndexMutByKey ==
    /\ ix.op = "none"
    /\ \E j \in 1..Len(Keys) :
           \E r \in {IndexMutKey(ix.v, Keys[j])} :
               ix' = [ix EXCEPT !.op = "index_mut_str", !.key = Keys[j], !.ok = r.ok,
                                !.v = r.val,
                                !.out = IF r.ok THEN r.val.o[Keys[j]] ELSE Null]
    /\ UNCHANGED <<p, rt, e, d, b>>

NextIndex == IndexByPosition \/ IndexByKey \/ IndexMutByKey

SpecIndex == InitIndex /\ [][NextIndex]_vars

---------------------------------------------------------------------------
\* parse of a text made of the characters of numbers, alone, as the element
\* of a list and as the value of a member
MaxNumToks == 4

NumToks ==
    { <<Minus>>, <<Digit0>>, Str(<<"1">>), <<Dot>>, <<LowerE>>, <<UpperE>>, <<Plus>>,
      Str(<<"9", "9", "9">>) }

NumWraps ==
    { [open |-> <<>>, close |-> <<>>],
      [open |-> <<LBracket>>, close |-> <<RBracket>>],
      [open |-> <<LBrace, Quote, LowerA, Quote, Colon>>, close |-> <<RBrace>>] }

InitNumbers ==
    /\ \E n \in 0..MaxNumToks :
           \E ts \in [1..n -> NumToks], w \in NumWraps :
               p = ParseInit(w.open \o Concat(ts) \o w.close)
    /\ rt = IdleRt /\ e = IdleE /\ d = IdleD /\ b = IdleB /\ ix = IdleIx

SpecNumbers == InitNumbers /\ [][Next]_vars

---------------------------------------------------------------------------
\* format!("{}", v) and format!("{:?}", v) of a string and of an object with
\* one key, the string or key made of up to MaxStrLen characters, then the
\* text parsed back
MaxStrLen == 2

\* the characters, each as its UTF-8 bytes: the quote, the backslash, control
\* characters with and without a short escape, DEL, letters, U+00E9
StrChars ==
    { <<Quote>>, <<Backslash>>, <<Lf>>, <<Cr>>, <<Tab>>, <<Bs>>, <<Ff>>, <<1>>, <<31>>,
      <<Ascii["DEL"]>>, <<LowerU>>, <<LowerN>>, <<195, 169>> }

InitEscape ==
    /\ \E n \in 0..MaxStrLen :
           \E cs \in [1..n -> StrChars], pretty \in BOOLEAN :
               \E v \in {String(Concat(cs)), Object(MapInsert(EmptyMap, Concat(cs), Null))} :
                    rt = [IdleRt EXCEPT !.v = v, !.v0 = v, !.pretty = pretty]
    /\ p = IdleP /\ e = IdleE /\ d = IdleD /\ b = IdleB /\ ix = IdleIx

SpecEscape == InitEscape /\ [][NextRoundTrip]_vars

---------------------------------------------------------------------------
\* parse of a text of brackets, braces, commas, values and keys
MaxSepToks == 5

SepToks ==
    { <<LBracket>>, <<RBracket>>, <<LBrace>>, <<RBrace>>, <<Comma>>, <<Space>>, Str(<<"1">>),
      <<Quote, LowerA, Quote, Colon>> }

InitSeparators ==
    /\ \E n \in 0..MaxSepToks :
           \E ts \in [1..n -> SepToks] : p = ParseInit(Concat(ts))
    /\ rt = IdleRt /\ e = IdleE /\ d = IdleD /\ b = IdleB /\ ix = IdleIx

SpecSeparators == InitSeparators /\ [][Next]_vars

---------------------------------------------------------------------------
\* parse of a string literal made of up to MaxEscapes pieces: \\u escapes with
\* four digits (high and low surrogates, other code units, either case), \\u
\* with a sign, a letter that is no digit or too few digits, and the letter a;
\* with and without the closing quote
MaxEscapes == 3

HexGroups ==
    { Str(<<"d", "8", "0", "0">>), Str(<<"d", "b", "f", "f">>), Str(<<"D", "8", "3", "D">>),
      Str(<<"d", "c", "0", "0">>), Str(<<"d", "f", "f", "f">>), Str(<<"D", "E", "0", "0">>),
      Str(<<"0", "0", "4", "1">>), Str(<<"d", "7", "f", "f">>), Str(<<"e", "0", "0", "0">>),
      Str(<<"+", "1", "2", "3">>), Str(<<"-", "1", "2", "3">>), Str(<<"1", "x", "2", "3">>),
      Str(<<"1", "2">>) }

EscToks == {<<Backslash, LowerU>> \o g : g \in HexGroups} \cup {<<LowerA>>}

InitEscapes ==
    /\ \E n \in 0..MaxEscapes :
           \E ts \in [1..n -> EscToks], tail \in {<<>>, <<Quote>>} :
               p = ParseInit(<<Quote>> \o Concat(ts) \o tail)
    /\ rt = IdleRt /\ e = IdleE /\ d = IdleD /\ b = IdleB /\ ix = IdleIx

SpecEscapes == InitEscapes /\ [][Next]_vars

---------------------------------------------------------------------------
\* parse of a text of objects, lists, keys with and without their colon, and
\* values
MaxKeyToks == 5

KeyToks ==
    { <<LBrace>>, <<RBrace>>, <<LBracket>>, <<RBracket>>, <<Comma>>, Str(<<"1">>),
      <<Quote, LowerA, Quote, Colon>>, <<Quote, LowerB, Quote, Space, Colon>>,
      <<Quote, LowerA, Quote>> }

InitKeys ==
    /\ \E n \in 0..MaxKeyToks :
           \E ts \in [1..n -> KeyToks] : p = ParseInit(Concat(ts))
    /\ rt = IdleRt /\ e = IdleE /\ d = IdleD /\ b = IdleB /\ ix = IdleIx

SpecKeys == InitKeys /\ [][Next]_vars

(***************************************************************************)
(* Properties.                                                             *)
(***************************************************************************)
\* the byte index i of the input, read at a loop head, starts a string literal
\* that the input ends inside of
EndsInLiteral(ps) ==
    /\ Get(ps.input, ps.i) = Quote
    /\ LET r == RefChars(ps.input, ps.i + 1, <<>>) IN ~r.ok /\ r.i >= Len(ps.input)

\* the iteration at ps consumes a whitespace byte that is outside a string literal
SkipsWs(ps) ==
    LET n    == ParseStep(ps)
        from == IF Get(ps.input, ps.i) = Quote
                THEN ScanString(ps.input, ps.i + 1, <<>>).i ELSE ps.i
    IN  /\ n.status # "err"
        /\ \E j \in from..(n.i - 1) : IsWs(Get(ps.input, j))

\* C1: once the compact text of a value v has been parsed back, the parse has
\* succeeded and the value it returned is structurally equal to v.
RoundTrip ==
    (rt.back # NoParse /\ ~rt.pretty /\ ~rt.mutated) =>
        /\ rt.back.status = "ok"
        /\ RefEq(rt.back.val, rt.v)

\* C2: when parse has returned, an input that starts with a complete JSON value
\* and goes on after it was answered with an error, and an Ok was given only
\* for an input that is exactly one JSON value.
TrailingInputRejected ==
    p.status # "run" =>
        /\ (RefValue(p.input, 0).ok /\ RefValue(p.input, 0).i < Len(p.input))
               => p.status = "err"
        /\ p.status = "ok" => RefParse(p.input).ok

\* C3: a loop head reached at the end of the input, or at a string literal the
\* input ends inside of, leads to an error; an error carries no value, and Ok
\* is returned only with every container closed and the input used up.
IncompleteRejected ==
    /\ (p.status = "run" /\ (p.i >= Len(p.input) \/ EndsInLiteral(p)))
           => (ParseStep(p).status = "err" /\ ParseStep(p).val = Null)
    /\ p.status = "err" => p.val = Null
    /\ p.status = "ok" => (p.stack = <<>> /\ p.i = Len(p.input))

IncompleteRejectedWitness ==
    /\ p.status = "err"
    /\ p.err = "unexpected end of input"
    /\ p.stack # <<>>
    /\ p.expect \in {"Value", "Key", "CommaOrBrace"}

\* C4: when parse has returned for an input that is a JSON text of RFC 8259
\* without outer whitespace, it returned Ok with the value the text denotes.
ParserComplete ==
    (p.status # "run" /\ RefParse(p.input).ok) =>
        /\ p.status = "ok"
        /\ RefEq(p.val, RefParse(p.input).val)

\* C5: at a loop head that reads ']' or '}', the iteration ends in an error
\* when no container is open or the innermost open one is of the other kind;
\* an iteration that does not fail pops one container, of the closer's kind.
BracketMatching ==
    (p.status = "run" /\ Get(p.input, p.i) \in {RBracket, RBrace}) =>
        LET c    == Get(p.input, p.i)
            n    == Len(p.stack)
            kind == IF c = RBracket THEN "List" ELSE "Object"
            nxt  == ParseStep(p)
        IN  /\ (n = 0 \/ p.stack[n].t # kind) => nxt.status = "err"
            /\ nxt.status # "err" => (Len(nxt.stack) = n - 1 /\ p.stack[n].t = kind)

BracketMatchingWitness ==
    /\ p.status = "err"
    /\ p.stack # <<>>
    /\ p.stack[Len(p.stack)].t = "List"
    /\ Get(p.input, p.i) = RBrace

\* C6: an input whose first or last byte is whitespace is answered with an
\* error, and no iteration that starts with the container stack empty consumes
\* a whitespace byte outside a string literal.
TopLevelWhitespaceRejected ==
    /\ (p.status # "run" /\ (IsWs(Get(p.input, 0)) \/ IsWs(Get(p.input, Len(p.input) - 1))))
           => p.status = "err"
    /\ (p.status = "run" /\ p.stack = <<>>) => ~SkipsWs(p)

\* C7: every Number inside a value built by a conversion, by parse, by clone or
\* by an assignment through an index is finite; FiniteF64::try_from answers a
\* NaN or an infinity with Err, and JsonValue::from turns it into Null.
FiniteInvariant ==
    /\ AllFinite(b.val)
    /\ b.fin.ok => FIsFinite(b.fin.val)
    /\ (b.op = "try_from" /\ ~FIsFinite(b.arg)) => ~b.fin.ok
    /\ (b.op = "f64" /\ ~FIsFinite(b.arg)) => b.val = Null

FiniteInvariantWitness ==
    /\ b.op = "f64"
    /\ ~FIsFinite(b.arg)
    /\ b.val = Null

\* C8: when eq has returned, it returned true exactly if the two values are
\* equal by the recursive definition of structural equality.
EqMatchesReference ==
    e.st.result # "run" => ((e.st.result = "true") = RefEq(e.a, e.b))

\* two Lists of the same length that differ in the payload of one String only
EqMatchesReferenceWitness ==
    /\ e.st.result = "false"
    /\ e.a.t = "List" /\ e.b.t = "List"
    /\ Len(e.a.l) = 2 /\ Len(e.b.l) = 2
    /\ e.a.l[1] = e.b.l[1]
    /\ e.a.l[2].t = "String" /\ e.b.l[2].t = "String"
    /\ e.a.l[2].s # e.b.l[2].s

\* C9: clone returns (the text of v parses), the value it returns is equal to
\* v under ==, and v is the same before and after, also once the copy has been
\* written to.
CloneContract ==
    (rt.back # NoParse /\ ~rt.pretty) =>
        /\ rt.back.status = "ok"
        /\ rt.v = rt.v0
        /\ ~rt.mutated => Eq(rt.back.val, rt.v) = {TRUE}

\* C10: whatever the nesting of the value, from_str, serialize and eq run in
\* one activation each and drop in at most two.  The only call any of them
\* makes on a value is that of drop, so every activation above the first is
\* one of drop; there are never more than two of those, and a drop that was
\* called by drop never walks a container: it is the one for a scalar popped
\* from the Vec, which returns at once.
CallDepthBounded ==
    /\ \A j \in 2..Len(d.frames) : IsDropFrame(d.frames[j])
    /\ Cardinality({j \in 1..Len(d.frames) : IsDropFrame(d.frames[j])}) <= 2
    /\ \A j \in 2..Len(d.frames) :
           IsDropFrame(d.frames[j - 1]) => (d.frames[j].pc # "loop" /\ ~d.frames[j].taken)

\* the four of them have run to their end on a value nested six deep
CallDepthBoundedWitness ==
    /\ d.frames = <<>>
    /\ p.status = "ok"
    /\ Depth(p.val) >= 6
    /\ rt.ser.done
    /\ e.st.result = "true"
    /\ d.root = p.val
    /\ Len(d.released) >= 6

\* the value a member literal denotes
LitValue(lit) == IF lit = KwNull THEN Null ELSE Number(F1)

\* the last member of ms that has the key
LastOf(ms, key) ==
    CHOOSE j \in 1..Len(ms) :
        /\ ms[j].key = key
        /\ \A k \in (j + 1)..Len(ms) : ms[k].key # key

\* C11: when parse has returned for the text of an object written from the
\* members ms, it returned Ok with an Object that has exactly the keys of ms,
\* each once, and each with the value of its last member in ms.
DuplicateKeysLastWins ==
    p.status # "run" =>
        \A n \in 0..MaxMembers : \A ms \in [1..n -> Members] :
            p.input = ObjectText(ms) =>
                /\ p.status = "ok"
                /\ p.val.t = "Object"
                /\ DOMAIN p.val.o = {ms[j].key : j \in 1..n}
                /\ \A key \in DOMAIN p.val.o :
                       p.val.o[key] = LitValue(ms[LastOf(ms, key)].lit)

DuplicateKeysLastWinsWitness ==
    /\ p.status = "ok"
    /\ \E ms \in [1..3 -> Members] :
           /\ p.input = ObjectText(ms)
           /\ ms[1].key = ms[3].key /\ ms[2].key # ms[1].key
           /\ ms[1].lit # ms[3].lit
           /\ p.val.o[ms[1].key] = LitValue(ms[3].lit)
           /\ p.val.o[ms[2].key] = LitValue(ms[2].lit)

\* C12: &mut v[key] on an Object without the key adds exactly that key, with
\* Null, and keeps every other entry; on an Object with the key it changes
\* nothing; v[idx] and v[key] never change v, and they return exactly when v
\* is a List with a position idx or an Object with the key, and panic otherwise.
IndexedAccess ==
    /\ (ix.op = "index_mut_str" /\ ix.v0.t = "Object") =>
           /\ ix.ok
           /\ ix.v.t = "Object"
           /\ ix.key \in DOMAIN ix.v0.o => ix.v = ix.v0
           /\ ix.key \notin DOMAIN ix.v0.o =>
                  /\ DOMAIN ix.v.o = DOMAIN ix.v0.o \cup {ix.key}
                  /\ ix.v.o[ix.key] = Null
                  /\ \A k \in DOMAIN ix.v0.o : ix.v.o[k] = ix.v0.o[k]
    /\ ix.op = "index_usize" =>
           /\ ix.v = ix.v0
           /\ ix.ok = (ix.v0.t = "List" /\ ix.idx < Len(ix.v0.l))
           /\ ix.ok => ix.out = ix.v0.l[ix.idx + 1]
    /\ ix.op = "index_str" =>
           /\ ix.v = ix.v0
           /\ ix.ok = (ix.v0.t = "Object" /\ ix.key \in DOMAIN ix.v0.o)
           /\ ix.ok => ix.out = ix.v0.o[ix.key]

IndexedAccessWitness ==
    /\ ix.op = "index_mut_str"
    /\ ix.v0.t = "Object"
    /\ DOMAIN ix.v0.o # {}
    /\ ix.key \notin DOMAIN ix.v0.o
    /\ ix.v.o[ix.key] = Null

\* the input is the text t inside the wrap w
IsWrapped(in, w, t) == in = w.open \o t \o w.close

\* the text between the two parts of the wrap w
Unwrapped(in, w) == SubSeq(in, Len(w.open) + 1, Len(in) - Len(w.close))

\* the value v alone, as the element of a list, as the value of the member "a"
WrapValue(w, v) ==
    IF w.open = <<>> THEN v
    ELSE IF w.open = <<LBracket>> THEN List(<<v>>)
    ELSE Object(MapInsert(EmptyMap, <<LowerA>>, v))

\* t is one number token of RFC 8259
IsRefNumber(t) == t # <<>> /\ RefNumberEnd(t, 0) = Len(t)

\* C13: when parse has returned for a number of RFC 8259 whose computed f64
\* is an infinity or a NaN, alone or inside a List or an Object, it returned
\* Ok with Null where the number stands.
OverflowYieldsNull ==
    p.status # "run" =>
        \A w \in NumWraps :
            LET t == Unwrapped(p.input, w)
            IN  (IsWrapped(p.input, w, t) /\ IsRefNumber(t)
                     /\ ~FIsFinite(ScanNumber(t, 0).num)) =>
                    /\ p.status = "ok"
                    /\ p.val = WrapValue(w, Null)

OverflowYieldsNullWitness ==
    /\ p.status = "ok"
    /\ p.val = List(<<Null>>)
    /\ p.input = <<LBracket, Minus>> \o Str(<<"1", "e", "9", "9", "9">>) \o <<RBracket>>

\* at byte i: an optional '-', then a '0', then a digit
LeadingZeroAt(bytes, i) ==
    LET a == IF Get(bytes, i) = Minus THEN i + 1 ELSE i
    IN  Get(bytes, a) = Digit0 /\ IsDigit(Get(bytes, a + 1))

\* C14: a loop head at a number token whose integer part is a 0 followed by a
\* digit, with or without a '-', ends in an error; and parse has returned an
\* error for every text that starts with such a token, alone, inside a List
\* and as the value of a member.
LeadingZeroRejected ==
    /\ (p.status = "run" /\ LeadingZeroAt(p.input, p.i)) => ParseStep(p).status = "err"
    /\ p.status # "run" =>
           \A w \in NumWraps :
               LET t == Unwrapped(p.input, w)
               IN  (IsWrapped(p.input, w, t) /\ LeadingZeroAt(t, 0)) => p.status = "err"

LeadingZeroRejectedWitness ==
    /\ p.status = "err"
    /\ p.err = "illegal leading zero"
    /\ p.stack # <<>>
    /\ Get(p.input, p.i - 1) = Minus
    /\ LeadingZeroAt(p.input, p.i - 1)

\* the string literal in the finished text of a string or of an object with one
\* key and the value null
LiteralOf(r) ==
    IF r.v.t = "String" THEN r.ser.out
    ELSE IF r.pretty THEN SubSeq(r.ser.out, 4, Len(r.ser.out) - 8)
    ELSE SubSeq(r.ser.out, 2, Len(r.ser.out) - 6)

\* the string that was written
WrittenString(r) ==
    IF r.v.t = "String" THEN r.v.s ELSE CHOOSE k \in DOMAIN r.v.o : TRUE

\* the bytes a character of a literal takes: two for a short escape, six for
\* \u00XX, one for a byte written as it is
RECURSIVE EscapedLen(_, _)
EscapedLen(s, j) ==
    IF j > Len(s) THEN 0
    ELSE (IF s[j] \in {Quote, Backslash, Lf, Cr, Tab, Bs, Ff} THEN 2
          ELSE IF s[j] < 32 \/ s[j] = 127 THEN 6 ELSE 1)
         + EscapedLen(s, j + 1)

\* C15: the literal written for a string or a key holds no raw control
\* character; read by the grammar of RFC 8259 it is one string literal that
\* denotes the string written; a quote, a backslash, \n \r \t \b \f take two
\* bytes, any other control character the six of \u00XX, every other byte is
\* there as it is; and the text parsed back gives the value written.
EscapedOutput ==
    /\ rt.ser.done =>
           LET lit == LiteralOf(rt)
               s   == WrittenString(rt)
               r   == RefChars(lit, 1, <<>>)
           IN  /\ Len(lit) >= 2 /\ lit[1] = Quote
               /\ \A j \in 1..Len(lit) : ~IsAsciiControl(lit[j])
               /\ r.ok /\ r.i = Len(lit) /\ r.val = String(s)
               /\ Len(lit) = 2 + EscapedLen(s, 1)
    /\ (rt.back # NoParse /\ ~rt.mutated) =>
           /\ rt.back.status = "ok"
           /\ rt.back.val = rt.v

EscapedOutputWitness ==
    /\ rt.back # NoParse
    /\ rt.back.status = "ok"
    /\ rt.v.t = "Object"
    /\ WrittenString(rt) = <<Ascii["DEL"], Quote>>
    /\ LiteralOf(rt) = <<Quote, Backslash, LowerU, Digit0, Digit0>> \o Str(<<"7", "f">>)
                           \o <<Backslash, Quote, Quote>>

\* the line break of the pretty layout before something that k containers enclose
LayoutBreak(pretty, k) == IF pretty THEN <<Lf>> \o [j \in 1..k |-> Tab] ELSE <<>>

\* the texts the layout rules allow for a value that depth containers enclose:
\* one for each order of the members of its objects
RECURSIVE LayoutTexts(_, _, _)
RECURSIVE LayoutElements(_, _, _, _)
RECURSIVE LayoutMembers(_, _, _, _)
LayoutTexts(v, pretty, depth) ==
    IF v.t = "List"
    THEN IF v.l = <<>> THEN {<<LBracket, RBracket>>}
         ELSE {<<LBracket>> \o body \o LayoutBreak(pretty, depth) \o <<RBracket>> :
                  body \in LayoutElements(v.l, 1, pretty, depth + 1)}
    ELSE IF v.t = "Object"
    THEN IF DOMAIN v.o = {} THEN {<<LBrace, RBrace>>}
         ELSE {<<LBrace>> \o body \o LayoutBreak(pretty, depth) \o <<RBrace>> :
                  body \in LayoutMembers(v.o, DOMAIN v.o, pretty, depth + 1)}
    ELSE IF v.t = "Null" THEN {KwNull}
    ELSE IF v.t = "Boolean" THEN {IF v.b THEN KwTrue ELSE KwFalse}
    ELSE IF v.t = "Number" THEN {FmtF64(v.n)}
    ELSE {WriteEscaped(v.s)}
LayoutElements(l, j, pretty, depth) ==
    IF j > Len(l) THEN {<<>>}
    ELSE {(IF j > 1 THEN <<Comma>> ELSE <<>>) \o LayoutBreak(pretty, depth) \o t \o r :
             t \in LayoutTexts(l[j], pretty, depth),
             r \in LayoutElements(l, j + 1, pretty, depth)}
LayoutMembers(o, rest, pretty, depth) ==
    IF rest = {} THEN {<<>>}
    ELSE UNION {{(IF rest # DOMAIN o THEN <<Comma>> ELSE <<>>) \o LayoutBreak(pretty, depth)
                    \o WriteEscaped(k) \o <<Colon>> \o (IF pretty THEN <<Space>> ELSE <<>>)
                    \o t \o r :
                    t \in LayoutTexts(o[k], pretty, depth),
                    r \in LayoutMembers(o, rest \ {k}, pretty, depth)} : k \in rest}

\* C16: the finished text of a value is the one the layout rules give for some
\* order of the members of its objects: nothing between the tokens in compact
\* mode; in pretty mode a newline and one tab per enclosing container before
\* each element or member, a newline and one tab per container around it
\* before the closer of a non-empty container, one space after each colon;
\* [] and {} for the empty containers; one comma between siblings and none
\* before a closer.
OutputLayout ==
    rt.ser.done => rt.ser.out \in LayoutTexts(rt.v, rt.pretty, 0)

OutputLayoutWitness ==
    /\ rt.ser.done
    /\ rt.pretty
    /\ rt.v = List(<<Object(MapInsert(EmptyMap, Keys[1], List(<<>>)))>>)
    /\ rt.ser.out = <<LBracket, Lf, Tab, LBrace, Lf, Tab, Tab, Quote, LowerA, Quote, Colon, Space,
                      LBracket, RBracket, Lf, Tab, RBrace, Lf, RBracket>>

\* the iteration at ps reads a number token: a '-' or a digit where a value may start
ReadsNumber(ps) ==
    /\ ps.status = "run"
    /\ ps.expect \in {"Value", "ValueOrBracket"}
    /\ (Get(ps.input, ps.i) = Minus \/ IsDigit(Get(ps.input, ps.i)))

\* C17: an iteration that reads a number token and does not fail has consumed
\* exactly a number of RFC 8259: an optional '-', a 0 or a non-zero digit with
\* further digits, an optional '.' with at least one digit, an optional e or E
\* with an optional sign and at least one digit.
NumberGrammar ==
    (ReadsNumber(p) /\ ParseStep(p).status # "err") =>
        RefNumberEnd(p.input, p.i) = ParseStep(p).i

\* the last byte before index i that is no whitespace, -1 if there is none
RECURSIVE PrevByte(_, _)
PrevByte(bytes, i) ==
    IF i <= 0 THEN -1
    ELSE IF IsWs(Get(bytes, i - 1)) THEN PrevByte(bytes, i - 1)
    ELSE Get(bytes, i - 1)

\* c ends a value of the texts of SpecSeparators; c starts a value or a key
EndsValue(c) == c = RBracket \/ c = RBrace \/ IsDigit(c)
StartsValueOrKey(c) == c = LBracket \/ c = LBrace \/ c = Quote \/ IsDigit(c)

\* C18: at a loop head inside a container the iteration ends in an error when
\* it reads a value or key right after a completed value, a comma right after
\* the opener or after another comma, or a closer right after a comma; a
\* single comma after a completed value is taken.
Separators ==
    (p.status = "run" /\ p.stack # <<>>) =>
        LET c    == Get(p.input, p.i)
            prev == PrevByte(p.input, p.i)
            nxt  == ParseStep(p)
        IN  /\ (StartsValueOrKey(c) /\ EndsValue(prev)) => nxt.status = "err"
            /\ (c = Comma /\ prev \in {LBracket, LBrace, Comma}) => nxt.status = "err"
            /\ (c \in {RBracket, RBrace} /\ prev = Comma) => nxt.status = "err"
            /\ (c = Comma /\ EndsValue(prev)) => nxt.status = "run"

SeparatorsWitness ==
    /\ p.status = "err"
    /\ Len(p.stack) = 1
    /\ p.stack[1].t = "Object"
    /\ DOMAIN p.stack[1].o # {}
    /\ Get(p.input, p.i) = RBrace
    /\ PrevByte(p.input, p.i) = Comma

\* the code units a literal spells from byte i on, as \\u and four hexadecimal
\* digits or as the letter a, and the index where they end
RECURSIVE EscapeUnits(_, _, _)
EscapeUnits(bytes, i, acc) ==
    IF Get(bytes, i) = LowerA THEN EscapeUnits(bytes, i + 1, Append(acc, LowerA))
    ELSE IF Get(bytes, i) = Backslash /\ Get(bytes, i + 1) = LowerU /\ RefHex4(bytes, i + 2) >= 0
    THEN EscapeUnits(bytes, i + 6, Append(acc, RefHex4(bytes, i + 2)))
    ELSE [units |-> acc, i |-> i]

IsHighSurrogate(u) == u >= 55296 /\ u <= 56319
IsLowSurrogate(u) == u >= 56320 /\ u <= 57343
PairValue(hi, lo) == 65536 + (lo - 56320) + (hi - 55296) * 1024

\* the string the code units u[j..] denote: a high surrogate with a low one
\* right after it is one character, any other surrogate is U+FFFD
RECURSIVE UnitsString(_, _)
UnitsString(u, j) ==
    IF j > Len(u) THEN <<>>
    ELSE IF IsHighSurrogate(u[j]) /\ j < Len(u) /\ IsLowSurrogate(u[j + 1])
    THEN Utf8(PairValue(u[j], u[j + 1])) \o UnitsString(u, j + 2)
    ELSE IF IsHighSurrogate(u[j]) \/ IsLowSurrogate(u[j])
    THEN Utf8(65533) \o UnitsString(u, j + 1)
    ELSE Utf8(u[j]) \o UnitsString(u, j + 1)

\* C19: when parse has returned for a literal of \\u escapes with four
\* hexadecimal digits each and letters, it returned Ok with the string in
\* which a high surrogate and the low surrogate escape right after it are the
\* one character 0x10000 + (low - 0xDC00) + (high - 0xD800) * 1024, between
\* 0x10000 and 0x10FFFF, every other surrogate is one U+FFFD, and whatever
\* follows a surrogate that was not paired is decoded on its own.
SurrogatePairs ==
    p.status # "run" =>
        LET r == EscapeUnits(p.input, 1, <<>>)
            u == r.units
        IN  (Get(p.input, r.i) = Quote /\ r.i + 1 = Len(p.input)) =>
                /\ p.status = "ok"
                /\ p.val = String(UnitsString(u, 1))
                /\ \A j \in 1..(Len(u) - 1) :
                       (IsHighSurrogate(u[j]) /\ IsLowSurrogate(u[j + 1])) =>
                           (PairValue(u[j], u[j + 1]) >= 65536
                                /\ PairValue(u[j], u[j + 1]) <= 1114111)

SurrogatePairsWitness ==
    /\ p.status = "ok"
    /\ p.input = <<Quote, Backslash, LowerU>> \o Str(<<"d", "8", "0", "0">>)
                     \o <<Backslash, LowerU>> \o Str(<<"d", "b", "f", "f">>)
                     \o <<Backslash, LowerU>> \o Str(<<"d", "f", "f", "f">>) \o <<Quote>>
    /\ p.val = String(Utf8(65533) \o <<244, 143, 191, 191>>)

\* C20: when parse has returned Ok, every \\u of the input has four hexadecimal
\* digits after it.
HexValidation ==
    p.status = "ok" =>
        \A i \in 0..(Len(p.input) - 1) :
            (Get(p.input, i) = Backslash /\ Get(p.input, i + 1) = LowerU)
                => RefHex4(p.input, i + 2) >= 0

\* a node without what hangs below it
Shallow(v) ==
    IF v.t = "List" THEN List(<<>>) ELSE IF v.t = "Object" THEN Object(EmptyMap) ELSE v

\* the nodes of a value, each without what hangs below it
RECURSIVE ShallowNodes(_)
RECURSIVE ShallowNodesOfSeq(_)
ShallowNodesOfSeq(l) ==
    IF l = <<>> THEN <<>> ELSE ShallowNodes(l[1]) \o ShallowNodesOfSeq(Tail(l))
ShallowNodes(v) == <<Shallow(v)>> \o ShallowNodesOfSeq(Children(v))

\* how often x occurs in a sequence
Count(seq, x) == Cardinality({j \in 1..Len(seq) : seq[j] = x})

\* every node of the value occurs among the released as often as in the value
ReleasedOnce(root, released) ==
    /\ Len(released) = Len(ShallowNodes(root))
    /\ \A j \in 1..Len(released) :
           Count(released, released[j]) = Count(ShallowNodes(root), released[j])

\* what holds of every state of a teardown
DropSafe ==
    /\ \A j \in 1..Len(d.released) :
           IsContainer(d.released[j]) => Children(d.released[j]) = <<>>
    /\ \A j \in 1..Len(d.frames) :
           d.frames[j].pc = "glue" =>
               /\ ~(IsContainer(d.frames[j].self) /\ Children(d.frames[j].self) # <<>>)
               /\ d.frames[j].stack = <<>>
    /\ d.frames = <<>> => ReleasedOnce(d.root, d.released)

\* C21: the teardown of a value ends; when an activation of drop leaves its
\* loop its stack is empty; a container is released only with its children
\* moved out, so the release of a value never walks into children; and at the
\* end every node of the value has been released exactly once.
DropReleasesAll == []DropSafe /\ <>(d.frames = <<>>)

DropReleasesAllWitness ==
    /\ d.frames = <<>>
    /\ d.root.t = "Object"
    /\ Nodes(d.root) = 3
    /\ ReleasedOnce(d.root, d.released)
    /\ \E j \in 1..Len(d.released) : d.released[j] = Object(EmptyMap)

\* C22: at every loop head with a container open, the modes that wait for a
\* comma or a ']' or for a value or a ']' have a List on top of the stack, the
\* modes that wait for a key, for a key or a '}' or for a comma or a '}' have
\* an Object on top, and the mode that waits for a value has a List on top or
\* an Object together with a pending key.
ModeMatchesStack ==
    (p.status = "run" /\ p.stack # <<>>) =>
        LET top == p.stack[Len(p.stack)]
        IN  /\ p.expect \in {"CommaOrBracket", "ValueOrBracket"} => top.t = "List"
            /\ p.expect \in {"Key", "KeyOrBrace", "CommaOrBrace"} => top.t = "Object"
            /\ p.expect = "Value" =>
                   (top.t = "List" \/ (top.t = "Object" /\ p.key_stack # <<>>))

ModeMatchesStackWitness ==
    /\ p.status = "run"
    /\ Len(p.stack) = 2
    /\ p.stack[1].t = "List"
    /\ p.stack[2].t = "Object"
    /\ p.expect = "Value"
    /\ p.key_stack # <<>>

\* the index of the opener that the closer at index j closes, in a text whose
\* strings hold no brackets: open counts the closers met on the way back
RECURSIVE OpenerOf(_, _, _)
OpenerOf(bytes, j, open) ==
    IF j < 0 THEN -1
    ELSE IF Get(bytes, j) \in {RBracket, RBrace} THEN OpenerOf(bytes, j - 1, open + 1)
    ELSE IF Get(bytes, j) \in {LBracket, LBrace}
    THEN IF open = 0 THEN j ELSE OpenerOf(bytes, j - 1, open - 1)
    ELSE OpenerOf(bytes, j - 1, open)

\* the index of the last byte before j that is no whitespace, -1 if none
RECURSIVE BackOverWs(_, _)
BackOverWs(bytes, j) ==
    IF j <= 0 THEN -1
    ELSE IF IsWs(Get(bytes, j - 1)) THEN BackOverWs(bytes, j - 1) ELSE j - 1

\* the index of the last quote before j, -1 if none
RECURSIVE BackToQuote(_, _)
BackToQuote(bytes, j) ==
    IF j <= 0 THEN -1
    ELSE IF Get(bytes, j - 1) = Quote THEN j - 1 ELSE BackToQuote(bytes, j - 1)

\* the key written before the value that starts at index j: the content of
\* the literal before the colon before j (keys without escapes)
KeyBefore(bytes, j) ==
    LET colon == BackOverWs(bytes, j)
        close == BackOverWs(bytes, colon)
        open  == BackToQuote(bytes, close)
    IN  IF colon >= 0 /\ Get(bytes, colon) = Colon /\ close >= 0
           /\ Get(bytes, close) = Quote /\ open >= 0
        THEN [ok |-> TRUE, key |-> SubSeq(bytes, open + 2, close)]
        ELSE [ok |-> FALSE, key |-> <<>>]

\* the iteration at ps puts a scalar into the Object on top of the stack
InsertsScalar(ps) ==
    /\ ps.stack # <<>>
    /\ ps.stack[Len(ps.stack)].t = "Object"
    /\ ps.expect = "Value"
    /\ ParseStep(ps).status # "err"
    /\ Len(ParseStep(ps).stack) = Len(ps.stack)

\* the iteration at ps closes a container and puts it into the Object below it
InsertsContainer(ps) ==
    /\ Len(ps.stack) >= 2
    /\ ps.stack[Len(ps.stack) - 1].t = "Object"
    /\ Get(ps.input, ps.i) \in {RBracket, RBrace}
    /\ ParseStep(ps).status # "err"

\* the iteration from ps to nxt has put val, which starts at index start of the
\* input, into the Object on top of the stack of nxt, under the key written
\* before it, and has popped that key
InsertedUnderItsKey(ps, nxt, start, val) ==
    LET k   == KeyBefore(ps.input, start)
        m   == Len(ps.key_stack)
        top == nxt.stack[Len(nxt.stack)]
    IN  /\ nxt.status = "run"
        /\ m > 0
        /\ k.ok
        /\ ps.key_stack[m] = k.key
        /\ nxt.key_stack = SubSeq(ps.key_stack, 1, m - 1)
        /\ top.t = "Object"
        /\ k.key \in DOMAIN top.o
        /\ top.o[k.key] = val

\* the iteration at ps reads a string where a key may stand, and what follows
\* the string, after whitespace, is no colon
KeyWithoutColon(ps) ==
    /\ Get(ps.input, ps.i) = Quote
    /\ ps.expect \in {"Key", "KeyOrBrace"}
    /\ LET r == RefChars(ps.input, ps.i + 1, <<>>)
       IN  r.ok /\ Get(ps.input, RefWs(ps.input, r.i)) # Colon

\* C23: no pop of the pending-key stack aborts; an iteration that puts a value
\* into the Object on top of the stack finds a pending key, pops it, and it
\* is the key written before that value in the text; an iteration that reads
\* a string in key position with no ':' after it ends in an error.
PendingKeys ==
    /\ p.status # "panic"
    /\ (p.status = "run" /\ InsertsScalar(p)) =>
           InsertedUnderItsKey(p, ParseStep(p), p.i, RefValue(p.input, p.i).val)
    /\ (p.status = "run" /\ InsertsContainer(p)) =>
           InsertedUnderItsKey(p, ParseStep(p), OpenerOf(p.input, p.i - 1, 0),
                               p.stack[Len(p.stack)])
    /\ (p.status = "run" /\ KeyWithoutColon(p)) => ParseStep(p).status = "err"

PendingKeysWitness ==
    /\ p.status = "run"
    /\ Len(p.stack) = 2
    /\ p.stack[1].t = "Object" /\ p.stack[2].t = "Object"
    /\ DOMAIN p.stack[2].o = {<<LowerB>>}
    /\ p.key_stack = <<<<LowerA>>>>
    /\ p.expect = "CommaOrBrace"

\* the iterations of the loop from the loop head ps until parse returns
RECURSIVE ParseIterations(_)
ParseIterations(ps) ==
    IF ps.status # "run" THEN 0 ELSE 1 + ParseIterations(ParseStep(ps))

\* C24: at a loop head the byte index is at most the length of the input; the
\* iteration from there returns Ok or Err or leaves the index larger than it
\* was; and parse returns within len - i + 1 more iterations, so within
\* len + 1 iterations in all.
ParserProgress ==
    p.status = "run" =>
        /\ p.i >= 0 /\ p.i <= Len(p.input)
        /\ ParseStep(p).status \in {"run", "ok", "err"}
        /\ ParseStep(p).status = "run" => ParseStep(p).i > p.i
        /\ ParseIterations(p) <= Len(p.input) - p.i + 1

ParserProgressWitness ==
    /\ p.status = "run"
    /\ p.i = Len(p.input)
    /\ Len(p.input) >= 3
    /\ Len(p.stack) = Len(p.input)

\* C25: while a == b is computed the two work lists have the same length; the
\* loop ends with true only with both of them empty; a value is equal to
\* itself; and a == b gives what b == a gives.
EqEquivalence ==
    /\ Len(e.st.lhs_stack) = Len(e.st.rhs_stack)
    /\ e.st.result = "true" => (e.st.lhs_stack = <<>> /\ e.st.rhs_stack = <<>>)
    /\ (e.st.result # "run" /\ e.a = e.b) => e.st.result = "true"
    /\ e.st.result # "run" => Eq(e.b, e.a) = {e.st.result = "true"}

EqEquivalenceWitness ==
    /\ e.st.result = "true"
    /\ e.a.t = "Object"
    /\ Cardinality(DOMAIN e.a.o) = 2
    /\ e.st.lhs_stack = <<>> /\ e.st.rhs_stack = <<>>

====
